---- MODULE Spec2Model ----
(***************************************************************************)
(* DeepWiki MCP client (DeepWikiClient in SETUP.md) of sidekick-dev-web:   *)
(* the persistent session, the handshake, the query and its result         *)
(* handling, and the repository-name normalisation; then the generation    *)
(* pipeline from the page's click to the download, the packaging, the      *)
(* response parser, and the page itself (Index.tsx) with its timers, its   *)
(* progress display, the analytics hook and the cookie banner.             *)
(*                                                                         *)
(* Text is modelled as a sequence of pieces: characters for repository     *)
(* names (the regular expression works on characters), and message pieces  *)
(* for log lines, bodies and returned strings (startswith works on a       *)
(* prefix of pieces).                                                      *)
(***************************************************************************)
EXTENDS Integers, Sequences, FiniteSets, TLC

VARIABLES
    session_id,      \* self.session_id: NoneVal, "" or a token
    is_initialized,  \* self.is_initialized
    accepted,        \* tokens the remote endpoint has issued in a 200 handshake
    constructed,     \* __init__ has returned: the object is visible to callers
    pc,              \* per caller: position inside the running method
    op,              \* per caller: the method last entered
    resp,            \* per caller: the response the last network call received
    ret,             \* per caller: value returned by the last completed method
    site,            \* per caller: return statement (or except clause) that ended it
    fault,           \* per caller: an exception left the method uncaught
    attempts,        \* per caller: requests.post calls made by the current method call
    readyAtCheck,    \* per caller: is_initialized as read at line 445
    sentToken,       \* per caller: Mcp-Session-Id value put on the query in flight
    repo_name,       \* per caller: repoName argument built by query
    log,             \* per caller: last debug_log line of the method
    norm,            \* normalisation harness: two spellings of one repository
    pair,            \* result harness: two query responses and their results
    gen,             \* one generation: the page's click, the backend call, the page's handling
    pkg,             \* packaging harness: content, target ids, the output and its download
    sse,             \* parser harness: a response text and what parse_sse_response returns
    ui               \* the page: React state of Index, its running handler, timers, analytics

vars == << session_id, is_initialized, accepted, constructed, pc, op, resp, ret,
           site, fault, attempts, readyAtCheck, sentToken, repo_name, log, norm, pair,
           gen, pkg, sse, ui >>

clientVars == << session_id, is_initialized, accepted, constructed, pc, op, resp, ret,
                 site, fault, attempts, readyAtCheck, sentToken, repo_name, log >>

-----------------------------------------------------------------------------
(* Bounds *)

\* longest owner or repository segment the normalisation harness draws
MaxSegLen == 2

\* longest response text, in pieces, the parser harness draws
MaxBodyLen == 3

-----------------------------------------------------------------------------
(* Text helpers *)

StartsWith(s, p) == Len(s) >= Len(p) /\ SubSeq(s, 1, Len(p)) = p

\* Python None for a field or header value
NoneVal == "<None>"

\* Python truthiness of an Optional[str] field
Truthy(x) == x # NoneVal /\ x # ""

-----------------------------------------------------------------------------
(* query: repository normalisation, lines 450-460 *)

HttpsPrefix == << "h","t","t","p","s",":","/","/","g","i","t","h","u","b",".","c","o","m","/" >>

HttpPrefix == << "h","t","t","p",":","/","/","g","i","t","h","u","b",".","c","o","m","/" >>

General == << "g","e","n","e","r","a","l" >>

\* length of the optional group (?:https?://github\.com/) matched at the start
HostPrefixLen(s) ==
    IF StartsWith(s, HttpsPrefix) THEN Len(HttpsPrefix)
    ELSE IF StartsWith(s, HttpPrefix) THEN Len(HttpPrefix)
    ELSE 0

\* length of the greedy run [^/]+ starting at index i (0: no character matches)
RECURSIVE RunLen(_, _)
RunLen(s, i) == IF i > Len(s) \/ s[i] = "/" THEN 0 ELSE 1 + RunLen(s, i + 1)

\* ([^/]+/[^/]+) matched at index i; << >> when it does not match there
CoreMatch(s, i) ==
    LET a == RunLen(s, i)
    IN  IF a = 0 \/ i + a > Len(s) THEN << >>
        ELSE LET b == RunLen(s, i + a + 1)
             IN  IF b = 0 THEN << >> ELSE SubSeq(s, i, i + a + b)

\* group 1 of re.match(r"(?:https?://github\.com/)?([^/]+/[^/]+)", s); << >>: no match.
\* The optional group is tried first; when the rest fails after it, the match is
\* retried with the group skipped.
RegexGroup1(s) ==
    LET p  == HostPrefixLen(s)
        m1 == IF p > 0 THEN CoreMatch(s, p + 1) ELSE << >>
    IN  IF m1 # << >> THEN m1 ELSE CoreMatch(s, 1)

\* repo_name as query builds it; the repository << >> stands for None or ""
NormalizeRepository(repository) ==
    IF repository = << >> THEN General
    ELSE LET m == RegexGroup1(repository)
         IN  IF m # << >> THEN m ELSE repository

-----------------------------------------------------------------------------
(* Normalisation harness: inputs *)

SegAlphabet == { "a", "-" }

RECURSIVE SeqsUpTo(_, _)
SeqsUpTo(S, n) ==
    IF n = 0 THEN { << >> }
    ELSE LET shorter == SeqsUpTo(S, n - 1)
         IN  shorter \cup { Append(s, c) : s \in shorter, c \in S }

Segments == SeqsUpTo(SegAlphabet, MaxSegLen) \ { << >> }

\* what may follow owner/repo in a URL that still names the same repository
UrlSuffixes == { << >>, << "/" >>, << "/", "t" >>, << "?", "q" >>, << "#", "f" >> }

UrlSchemes == { HttpsPrefix, HttpPrefix }

ShortForm(owner, repo) == owner \o << "/" >> \o repo

UrlForm(scheme, owner, repo, suffix) == scheme \o owner \o << "/" >> \o repo \o suffix

NormIdle == [ short |-> << >>, url |-> << >>, outShort |-> << >>, outUrl |-> << >>, done |-> FALSE ]

NormInputs ==
    { [ short |-> ShortForm(o, r), url |-> UrlForm(sch, o, r, suf),
        outShort |-> << >>, outUrl |-> << >>, done |-> FALSE ] :
        o \in Segments, r \in Segments, sch \in UrlSchemes, suf \in UrlSuffixes }

NormInit ==
    /\ norm \in NormInputs
    /\ pair = << >>
    /\ gen = << >> /\ pkg = << >> /\ sse = << >> /\ ui = << >>
    /\ session_id = NoneVal /\ is_initialized = FALSE /\ accepted = {} /\ constructed = FALSE
    /\ pc = << >> /\ op = << >> /\ resp = << >> /\ ret = << >> /\ site = << >>
    /\ fault = << >> /\ attempts = << >> /\ readyAtCheck = << >> /\ sentToken = << >>
    /\ repo_name = << >> /\ log = << >>

\* query's normalisation applied to both spellings
NormalizeBoth ==
    /\ ~norm.done
    /\ norm' = [ norm EXCEPT !.outShort = NormalizeRepository(norm.short),
                             !.outUrl   = NormalizeRepository(norm.url),
                             !.done     = TRUE ]
    /\ UNCHANGED << pair, gen, pkg, sse, ui, clientVars >>

NormNext == NormalizeBoth

NormSpec == NormInit /\ [][NormNext]_vars

-----------------------------------------------------------------------------
(* Values a method returns *)

Str(v) == [ type |-> "str", val |-> v ]

\* a method that ends without a return statement returns None
PyNone == [ type |-> "NoneType", val |-> << >> ]

-----------------------------------------------------------------------------
(* Messages of query, lines 446-517 *)

NotInitMsg == << "MCP client not properly initialized" >>

EmptyMsg == << "Empty response from DeepWiki" >>

TimeoutMsg == << "Request to DeepWiki timed out" >>

ConnMsg(e) == << "Error connecting to DeepWiki: " >> \o e

ProcMsg(e) == << "Error processing DeepWiki response: " >> \o e

StatusStr(status) == IF status = 200 THEN "200" ELSE IF status = 404 THEN "404" ELSE "500"

ApiErrMsg(status, text) == << "DeepWiki API Error ", StatusStr(status), ": " >> \o text

\* the four prefixes line 496 tests with startswith
DiagMarkers == { << "DeepWiki error:" >>, << "Failed to parse" >>,
                 << "Error parsing" >>, << "No message event" >> }

-----------------------------------------------------------------------------
(* Response bodies: server-sent events serialised into one text *)

EvMessage == "event: message"

EvPing == "event: ping"

DataResult == "data: result"

DataError == "data: error"

DataBad == "data: {"

Sep == "<blank line>"

WhitespacePieces == { " ", "<newline>" }

\* tool_response.text.strip() is empty
Blank(body) == \A i \in 1..Len(body) : body[i] \in WhitespacePieces

FirstIdx(s, tok) ==
    IF \E i \in 1..Len(s) : s[i] = tok
    THEN CHOOSE i \in 1..Len(s) : s[i] = tok /\ \A j \in 1..(i - 1) : s[j] # tok
    ELSE 0

\* the blocks of a body, split at blank lines; empty blocks are dropped
RECURSIVE SplitBlocks(_)
SplitBlocks(s) ==
    IF s = << >> THEN << >>
    ELSE LET i == FirstIdx(s, Sep)
         IN  IF i = 0 THEN << s >>
             ELSE (IF i = 1 THEN << >> ELSE << SubSeq(s, 1, i - 1) >>)
                  \o SplitBlocks(SubSeq(s, i + 1, Len(s)))

\* a plausible slip: a result line with nothing after it counts as a payload
ParseBlockAnyPayload(b) ==
    LET r == FirstIdx(b, DataResult)
        e == FirstIdx(b, DataError)
        x == FirstIdx(b, DataBad)
    IN  IF r > 0 THEN [ kind |-> "text", text |-> SubSeq(b, r + 1, Len(b)) ]
        ELSE IF e > 0 THEN [ kind |-> "error", text |-> SubSeq(b, e + 1, Len(b)) ]
        ELSE IF x > 0 THEN [ kind |-> "bad", text |-> << >> ]
        ELSE IF FirstIdx(b, EvMessage) > 0 \/ FirstIdx(b, EvPing) > 0
             THEN [ kind |-> "skip", text |-> << >> ]
        ELSE [ kind |-> "malformed", text |-> << >> ]

\* what one block yields: usable text, a vendor error, unparsable data, nothing
\* (an event without a usable payload), or not an SSE block at all
ParseBlock(b) ==
    LET r == FirstIdx(b, DataResult)
        e == FirstIdx(b, DataError)
        x == FirstIdx(b, DataBad)
    IN  IF r > 0 /\ r < Len(b) THEN [ kind |-> "text", text |-> SubSeq(b, r + 1, Len(b)) ]
        ELSE IF e > 0 THEN [ kind |-> "error", text |-> SubSeq(b, e + 1, Len(b)) ]
        ELSE IF x > 0 THEN [ kind |-> "bad", text |-> << >> ]
        ELSE IF r > 0 \/ FirstIdx(b, EvMessage) > 0 \/ FirstIdx(b, EvPing) > 0
             THEN [ kind |-> "skip", text |-> << >> ]
        ELSE [ kind |-> "malformed", text |-> << >> ]

\* parse_sse_response: the first block that yields text or a vendor error decides;
\* otherwise one of three diagnostics
parse_sse_response(body) ==
    LET blocks == SplitBlocks(body)
        parsed == [ i \in 1..Len(blocks) |-> ParseBlock(blocks[i]) ]
        hits   == { i \in 1..Len(blocks) : parsed[i].kind \in { "text", "error" } }
    IN  IF hits # {}
        THEN LET i == CHOOSE k \in hits : \A j \in hits : k <= j
             IN  IF parsed[i].kind = "text" THEN parsed[i].text
                 ELSE << "DeepWiki error:" >> \o parsed[i].text
        ELSE IF \E i \in 1..Len(blocks) : parsed[i].kind = "bad"
             THEN << "Failed to parse", " SSE data" >>
        ELSE IF \E i \in 1..Len(blocks) : parsed[i].kind = "malformed"
             THEN << "Error parsing", " SSE response" >>
        ELSE << "No message event", " found in response" >>

-----------------------------------------------------------------------------
(* Responses of the remote endpoint *)

Tokens == { "t1", "t2" }

ErrDetails == { << "Connection refused" >>, << "Name resolution failed" >> }

Statuses == { 200, 500 }

NoResp == [ kind |-> "none", status |-> 0, header |-> NoneVal, body |-> << >>, err |-> << >> ]

TimeoutResp == [ NoResp EXCEPT !.kind = "timeout" ]

ConnResp(e) == [ NoResp EXCEPT !.kind = "conn_error", !.err = e ]

HttpResp(status, header, body) ==
    [ NoResp EXCEPT !.kind = "http", !.status = status, !.header = header, !.body = body ]

DocBody == << EvMessage, DataResult, "# Overview", Sep >>

QueryBodies ==
    { << >>,
      << " " >>,
      DocBody,
      << EvPing, Sep, EvMessage, DataResult, "# Overview", " and more", Sep >>,
      << EvMessage, DataResult, "Request to DeepWiki timed out", Sep >>,
      << EvMessage, DataResult, "No message event", " is a term of SSE", Sep >>,
      << EvMessage, DataError, " Repository not found", Sep >>,
      << EvMessage, DataBad, Sep >>,
      << EvPing, Sep >>,
      << "<html>" >>,
      << EvMessage, DataResult, "# Overview" >>,
      << EvMessage, DataResult, Sep >> }

QueryResponses(Bodies) ==
    { TimeoutResp } \cup { ConnResp(e) : e \in ErrDetails }
    \cup { HttpResp(s, NoneVal, b) : s \in Statuses, b \in Bodies }

-----------------------------------------------------------------------------
(* Exceptions and the except clauses *)

\* isinstance(exc, cls) for the exception classes that occur
IsA(exc, cls) ==
    \/ exc = cls
    \/ cls = "Exception" /\ exc \in { "Timeout", "ConnectionError", "RequestException", "TypeError" }
    \/ cls = "RequestException" /\ exc \in { "Timeout", "ConnectionError" }

\* what requests.post raises for a response; "none" when it returns one
PostRaises(r) ==
    IF r.kind = "timeout" THEN "Timeout"
    ELSE IF r.kind = "conn_error" THEN "ConnectionError"
    ELSE "none"

\* a plausible slip: the general clause listed first shadows the timeout clause
QueryHandlerShadowed(exc) ==
    IF IsA(exc, "RequestException") THEN "L510"
    ELSE IF IsA(exc, "Timeout") THEN "L506"
    ELSE IF IsA(exc, "Exception") THEN "L514"
    ELSE "uncaught"

\* the except clause of query that catches exc, lines 506-517
QueryHandler(exc) ==
    IF IsA(exc, "Timeout") THEN "L506"
    ELSE IF IsA(exc, "RequestException") THEN "L510"
    ELSE IF IsA(exc, "Exception") THEN "L514"
    ELSE "uncaught"

\* a plausible slip: the last marker is not tested
IsUsableNoLastMarker(text_content) ==
    /\ text_content # << >>
    /\ ~StartsWith(text_content, << "DeepWiki error:" >>)
    /\ ~StartsWith(text_content, << "Failed to parse" >>)
    /\ ~StartsWith(text_content, << "Error parsing" >>)

\* the test of line 496
IsUsable(text_content) ==
    /\ text_content # << >>
    /\ \A m \in DiagMarkers : ~StartsWith(text_content, m)

\* what query does with the outcome r of its one POST, lines 489-517:
\* the value returned, the return statement reached, and whether an exception escaped
QueryOutcome(r) ==
    LET exc == PostRaises(r)
        h   == QueryHandler(exc)
    IN  IF exc = "none"
        THEN IF r.status = 200
             THEN IF Blank(r.body)
                  THEN [ ret |-> Str(EmptyMsg), site |-> "L492", fault |-> FALSE ]
                  ELSE LET text_content == parse_sse_response(r.body)
                       IN  IF IsUsable(text_content)
                           THEN [ ret |-> Str(text_content), site |-> "L497", fault |-> FALSE ]
                           ELSE [ ret |-> Str(text_content), site |-> "L500", fault |-> FALSE ]
             ELSE [ ret |-> Str(ApiErrMsg(r.status, r.body)), site |-> "L504", fault |-> FALSE ]
        ELSE IF h = "L506" THEN [ ret |-> Str(TimeoutMsg), site |-> "L509", fault |-> FALSE ]
        ELSE IF h = "L510" THEN [ ret |-> Str(ConnMsg(r.err)), site |-> "L513", fault |-> FALSE ]
        ELSE IF h = "L514" THEN [ ret |-> Str(ProcMsg(r.err)), site |-> "L517", fault |-> FALSE ]
        ELSE [ ret |-> PyNone, site |-> "raised", fault |-> TRUE ]

-----------------------------------------------------------------------------
(* Result harness: two query calls on a ready session, side by side *)

PairIdle == [ a |-> NoResp, b |-> NoResp, outA |-> PyNone, outB |-> PyNone, done |-> FALSE ]

PairInit ==
    /\ pair \in { [ PairIdle EXCEPT !.a = x, !.b = y ] :
                    x \in QueryResponses(QueryBodies), y \in QueryResponses(QueryBodies) }
    /\ norm = NormIdle
    /\ gen = << >> /\ pkg = << >> /\ sse = << >> /\ ui = << >>
    /\ session_id = "t1" /\ is_initialized = TRUE /\ accepted = { "t1" } /\ constructed = TRUE
    /\ pc = << >> /\ op = << >> /\ resp = << >> /\ ret = << >> /\ site = << >>
    /\ fault = << >> /\ attempts = << >> /\ readyAtCheck = << >> /\ sentToken = << >>
    /\ repo_name = << >> /\ log = << >>

\* both calls receive their response and return
PairReturn ==
    /\ ~pair.done
    /\ pair' = [ pair EXCEPT !.outA = QueryOutcome(pair.a).ret,
                             !.outB = QueryOutcome(pair.b).ret,
                             !.done = TRUE ]
    /\ UNCHANGED << norm, gen, pkg, sse, ui, clientVars >>

PairNext == PairReturn

PairSpec == PairInit /\ [][PairNext]_vars

\* the outcome class the response of a query falls in
OutcomeClass(r) ==
    IF r.kind = "timeout" THEN "Timeout"
    ELSE IF r.kind = "conn_error" THEN "NetworkError"
    ELSE IF r.status # 200 THEN "RemoteError"
    ELSE IF Blank(r.body) THEN "EmptyResponse"
    ELSE IF parse_sse_response(r.body) = << >>
            \/ \E m \in DiagMarkers : StartsWith(parse_sse_response(r.body), m) THEN "ParseError"
    ELSE "Success"

\* the value the claim expects for a failed transport or a non-success status
ExpectedFailure(r) ==
    IF r.kind = "timeout" THEN Str(TimeoutMsg)
    ELSE IF r.kind = "conn_error" THEN Str(ConnMsg(r.err))
    ELSE Str(ApiErrMsg(r.status, r.body))

TransportClasses == { "Timeout", "NetworkError", "RemoteError" }

MapsFailure(r, out) == OutcomeClass(r) \in TransportClasses => out = ExpectedFailure(r)

-----------------------------------------------------------------------------
(* _initialize_session, lines 381-431 *)

HandshakeResponses ==
    { TimeoutResp, ConnResp(<< "Connection refused" >>), HttpResp(500, NoneVal, << "<html>" >>) }
    \cup { HttpResp(200, h, << >>) : h \in { NoneVal, "" } \cup Tokens }

InitLogStart == << "Initializing DeepWiki MCP session..." >>

InitLogOk == << "MCP session initialized successfully" >>

InitLogTimeout == << "Timeout during MCP session initialization" >>

InitLogNetwork(e) == << "Network error during initialization: " >> \o e

InitLogFailed(e) == << "Failed to initialize MCP session: " >> \o e

StatusFailText(status, text) ==
    << "Initialization failed with status ", StatusStr(status), ": " >> \o text

NoSessionText == << "No session ID returned from DeepWiki server" >>

SubscriptText == << "'NoneType' object is not subscriptable" >>

\* a plausible slip: no general except clause
InitHandlerNoGeneral(exc) ==
    IF IsA(exc, "Timeout") THEN "L423"
    ELSE IF IsA(exc, "RequestException") THEN "L426"
    ELSE "uncaught"

\* the except clause of _initialize_session that catches exc, lines 423-431
InitHandler(exc) ==
    IF IsA(exc, "Timeout") THEN "L423"
    ELSE IF IsA(exc, "RequestException") THEN "L426"
    ELSE IF IsA(exc, "Exception") THEN "L429"
    ELSE "uncaught"

\* a plausible slip: an except clause that leaves the flag as it was
ReadyAfterFailureKept(old) == old

\* is_initialized as every except clause sets it, lines 425, 428, 431
ReadyAfterFailure(old) == FALSE

\* the method has run to its end (or an exception has left it)
Finish(w, value, where, line, escaped) ==
    /\ pc' = [ pc EXCEPT ![w] = "idle" ]
    /\ ret' = [ ret EXCEPT ![w] = value ]
    /\ site' = [ site EXCEPT ![w] = where ]
    /\ log' = [ log EXCEPT ![w] = line ]
    /\ fault' = [ fault EXCEPT ![w] = escaped ]

\* exception exc (text e) raised inside the try block of _initialize_session
InitRaise(w, exc, e) ==
    LET h == InitHandler(exc)
    IN  /\ IF h = "uncaught"
           THEN /\ Finish(w, PyNone, "raised", log[w], TRUE)
                /\ UNCHANGED is_initialized
           ELSE /\ is_initialized' = ReadyAfterFailure(is_initialized)
                /\ IF h = "L423" THEN Finish(w, PyNone, "L425", InitLogTimeout, FALSE)
                   ELSE IF h = "L426" THEN Finish(w, PyNone, "L428", InitLogNetwork(e), FALSE)
                   ELSE Finish(w, PyNone, "L431", InitLogFailed(e), FALSE)
        /\ constructed' = TRUE

\* a method is entered: its locals start afresh
Enter(w, method) ==
    /\ constructed
    /\ pc[w] = "idle"
    /\ op' = [ op EXCEPT ![w] = method ]
    /\ resp' = [ resp EXCEPT ![w] = NoResp ]
    /\ sentToken' = [ sentToken EXCEPT ![w] = NoneVal ]

\* lines 383-410: the handshake POST is sent
InitStart(w) ==
    /\ Enter(w, "initialize")
    /\ pc' = [ pc EXCEPT ![w] = "init_wait" ]
    /\ attempts' = [ attempts EXCEPT ![w] = 1 ]
    /\ readyAtCheck' = [ readyAtCheck EXCEPT ![w] = FALSE ]
    /\ ret' = [ ret EXCEPT ![w] = PyNone ]
    /\ site' = [ site EXCEPT ![w] = "running" ]
    /\ log' = [ log EXCEPT ![w] = InitLogStart ]
    /\ fault' = [ fault EXCEPT ![w] = FALSE ]
    /\ repo_name' = [ repo_name EXCEPT ![w] = << >> ]
    /\ UNCHANGED << session_id, is_initialized, accepted, constructed, norm, pair, gen, pkg, sse, ui >>

\* lines 402-416: the POST ends; on status 200 the header is stored in session_id
InitRecv(w, r) ==
    /\ pc[w] = "init_wait"
    /\ resp' = [ resp EXCEPT ![w] = r ]
    /\ IF PostRaises(r) # "none"
       THEN /\ InitRaise(w, PostRaises(r), r.err)
            /\ UNCHANGED << session_id, accepted >>
       ELSE IF r.status # 200
       THEN /\ InitRaise(w, "Exception", StatusFailText(r.status, r.body))
            /\ UNCHANGED << session_id, accepted >>
       ELSE /\ session_id' = r.header
            /\ accepted' = accepted \cup ({ r.header } \cap Tokens)
            /\ pc' = [ pc EXCEPT ![w] = "init_check" ]
            /\ UNCHANGED << is_initialized, constructed, ret, site, log, fault >>
    /\ UNCHANGED << op, attempts, readyAtCheck, sentToken, repo_name, norm, pair, gen, pkg, sse, ui >>

\* lines 417-420: session_id is read back
InitCheck(w) ==
    /\ pc[w] = "init_check"
    /\ IF ~Truthy(session_id)
       THEN InitRaise(w, "Exception", NoSessionText)
       ELSE /\ is_initialized' = TRUE
            /\ pc' = [ pc EXCEPT ![w] = "init_log" ]
            /\ UNCHANGED << constructed, ret, site, log, fault >>
    /\ UNCHANGED << session_id, accepted, op, resp, attempts, readyAtCheck, sentToken,
                    repo_name, norm, pair, gen, pkg, sse, ui >>

\* line 421: self.session_id[:8] is evaluated for the log line
InitLog(w) ==
    /\ pc[w] = "init_log"
    /\ IF session_id = NoneVal
       THEN InitRaise(w, "TypeError", SubscriptText)
       ELSE /\ Finish(w, PyNone, "L421", InitLogOk, FALSE)
            /\ constructed' = TRUE
            /\ UNCHANGED is_initialized
    /\ UNCHANGED << session_id, accepted, op, resp, attempts, readyAtCheck, sentToken,
                    repo_name, norm, pair, gen, pkg, sse, ui >>

-----------------------------------------------------------------------------
(* query, lines 433-517 *)

\* a plausible slip: the guard is missing
NotReadyNever(flag) == FALSE

\* the guard of line 445
NotReady(flag) == ~flag

\* a plausible slip: a failed transport is tried again
AfterQueryRetry(where) == IF where \in { "L509", "L513" } THEN "q_send" ELSE "idle"

\* where query goes after its POST has ended: every branch returns
AfterQuery(where) == "idle"

\* lines 444-460: the guard, then the repository name
QueryStart(w, repository) ==
    /\ Enter(w, "query")
    /\ attempts' = [ attempts EXCEPT ![w] = 0 ]
    /\ readyAtCheck' = [ readyAtCheck EXCEPT ![w] = is_initialized ]
    /\ fault' = [ fault EXCEPT ![w] = FALSE ]
    /\ IF NotReady(is_initialized)
       THEN /\ pc' = pc
            /\ ret' = [ ret EXCEPT ![w] = Str(NotInitMsg) ]
            /\ site' = [ site EXCEPT ![w] = "L448" ]
            /\ log' = [ log EXCEPT ![w] = NotInitMsg ]
       ELSE /\ pc' = [ pc EXCEPT ![w] = "q_send" ]
            /\ ret' = [ ret EXCEPT ![w] = PyNone ]
            /\ site' = [ site EXCEPT ![w] = "running" ]
            /\ log' = [ log EXCEPT ![w] = << >> ]
    /\ repo_name' = [ repo_name EXCEPT ![w] =
                        IF NotReady(is_initialized) THEN << >>
                        ELSE NormalizeRepository(repository) ]
    /\ UNCHANGED << session_id, is_initialized, accepted, constructed, norm, pair, gen, pkg, sse, ui >>

\* lines 478-487: the headers are built from session_id and the POST is sent
QuerySend(w) ==
    /\ pc[w] = "q_send"
    /\ sentToken' = [ sentToken EXCEPT ![w] = session_id ]
    /\ attempts' = [ attempts EXCEPT ![w] = attempts[w] + 1 ]
    /\ pc' = [ pc EXCEPT ![w] = "q_wait" ]
    /\ UNCHANGED << session_id, is_initialized, accepted, constructed, op, resp, ret, site,
                    fault, readyAtCheck, repo_name, log, norm, pair, gen, pkg, sse, ui >>

\* lines 489-517: the POST ends and query returns
QueryRecv(w, r) ==
    /\ pc[w] = "q_wait"
    /\ resp' = [ resp EXCEPT ![w] = r ]
    /\ LET out == QueryOutcome(r)
       IN  /\ ret' = [ ret EXCEPT ![w] = out.ret ]
           /\ site' = [ site EXCEPT ![w] = out.site ]
           /\ fault' = [ fault EXCEPT ![w] = out.fault ]
           /\ log' = [ log EXCEPT ![w] = IF out.site = "L497" THEN << >> ELSE out.ret.val ]
           /\ pc' = [ pc EXCEPT ![w] = AfterQuery(out.site) ]
    /\ UNCHANGED << session_id, is_initialized, accepted, constructed, op, attempts,
                    readyAtCheck, sentToken, repo_name, norm, pair, gen, pkg, sse, ui >>

-----------------------------------------------------------------------------
(* close, lines 519-524 *)

\* lines 521-523: the guard, then session_id is cleared
CloseStart(w) ==
    /\ Enter(w, "close")
    /\ attempts' = [ attempts EXCEPT ![w] = 0 ]
    /\ readyAtCheck' = [ readyAtCheck EXCEPT ![w] = FALSE ]
    /\ ret' = [ ret EXCEPT ![w] = PyNone ]
    /\ fault' = [ fault EXCEPT ![w] = FALSE ]
    /\ log' = [ log EXCEPT ![w] = << >> ]
    /\ repo_name' = [ repo_name EXCEPT ![w] = << >> ]
    /\ IF is_initialized
       THEN /\ session_id' = NoneVal
            /\ pc' = [ pc EXCEPT ![w] = "close_fin" ]
            /\ site' = [ site EXCEPT ![w] = "running" ]
       ELSE /\ pc' = pc
            /\ site' = [ site EXCEPT ![w] = "L521" ]
            /\ UNCHANGED session_id
    /\ UNCHANGED << is_initialized, accepted, constructed, norm, pair, gen, pkg, sse, ui >>

\* line 524: the flag is cleared
CloseFinish(w) ==
    /\ pc[w] = "close_fin"
    /\ is_initialized' = FALSE
    /\ pc' = [ pc EXCEPT ![w] = "idle" ]
    /\ site' = [ site EXCEPT ![w] = "L524" ]
    /\ UNCHANGED << session_id, accepted, constructed, op, resp, ret, fault, attempts,
                    readyAtCheck, sentToken, repo_name, log, norm, pair, gen, pkg, sse, ui >>

-----------------------------------------------------------------------------
(* The client: construction, then calls *)

Workers == { "w1", "w2" }

\* the caller that constructs the client
Constructor == "w1"

\* repositories a caller passes: none, owner/repo, a URL
Repositories ==
    { << >>, << "o", "/", "r" >>, HttpsPrefix \o << "o", "/", "r" >> }

\* __init__, lines 374-379: the fields are set and the constructor is inside
\* _initialize_session with the handshake sent
ClientInit ==
    /\ session_id = NoneVal
    /\ is_initialized = FALSE
    /\ accepted = {}
    /\ constructed = FALSE
    /\ pc = [ w \in Workers |-> IF w = Constructor THEN "init_wait" ELSE "idle" ]
    /\ op = [ w \in Workers |-> IF w = Constructor THEN "initialize" ELSE "none" ]
    /\ resp = [ w \in Workers |-> NoResp ]
    /\ ret = [ w \in Workers |-> PyNone ]
    /\ site = [ w \in Workers |-> IF w = Constructor THEN "running" ELSE "none" ]
    /\ fault = [ w \in Workers |-> FALSE ]
    /\ attempts = [ w \in Workers |-> IF w = Constructor THEN 1 ELSE 0 ]
    /\ readyAtCheck = [ w \in Workers |-> FALSE ]
    /\ sentToken = [ w \in Workers |-> NoneVal ]
    /\ repo_name = [ w \in Workers |-> << >> ]
    /\ log = [ w \in Workers |-> IF w = Constructor THEN InitLogStart ELSE << >> ]
    /\ norm = NormIdle
    /\ pair = PairIdle
    /\ gen = << >> /\ pkg = << >> /\ sse = << >> /\ ui = << >>

Init == ClientInit

\* one caller: every method runs to its end before the next is called
Next ==
    \/ InitStart(Constructor)
    \/ \E r \in HandshakeResponses : InitRecv(Constructor, r)
    \/ InitCheck(Constructor)
    \/ InitLog(Constructor)
    \/ \E repository \in Repositories : QueryStart(Constructor, repository)
    \/ QuerySend(Constructor)
    \/ \E r \in QueryResponses(QueryBodies) : QueryRecv(Constructor, r)
    \/ CloseStart(Constructor)
    \/ CloseFinish(Constructor)

Spec == Init /\ [][Next]_vars

\* concurrent callers see fewer kinds of response
ConcHandshakeResponses ==
    { TimeoutResp } \cup { HttpResp(200, h, << >>) : h \in { NoneVal, "" } \cup Tokens }

ConcQueryResponses == { TimeoutResp, HttpResp(200, NoneVal, DocBody) }

\* several request threads call into the one client; a step is one access to the
\* shared fields or one network call
ConcNext ==
    \E w \in Workers :
        \/ InitStart(w)
        \/ \E r \in ConcHandshakeResponses : InitRecv(w, r)
        \/ InitCheck(w)
        \/ InitLog(w)
        \/ QueryStart(w, << "o", "/", "r" >>)
        \/ QuerySend(w)
        \/ \E r \in ConcQueryResponses : QueryRecv(w, r)
        \/ CloseStart(w)
        \/ CloseFinish(w)

ConcSpec == Init /\ [][ConcNext]_vars

Quiescent == \A w \in Workers : pc[w] = "idle"

-----------------------------------------------------------------------------
(* Claims about the client *)

InitEnded(w) == op[w] = "initialize" /\ pc[w] = "idle" /\ resp[w].kind # "none"

QueryEnded(w) == op[w] = "query" /\ pc[w] = "idle" /\ resp[w].kind # "none"

\* why a handshake failed, read off its response; "none" when it did not
InitFailureCause(r) ==
    IF r.kind = "timeout" THEN "Timeout"
    ELSE IF r.kind = "conn_error" THEN "NetworkError"
    ELSE IF r.kind = "http" /\ r.status # 200 THEN "RemoteError"
    ELSE IF r.kind = "http" /\ ~Truthy(r.header) THEN "NoTokenIssued"
    ELSE "none"

\* C1: a query entered while is_initialized is false returns the not-initialized
\* message at once and has made no network call.
C1_NotInitializedNoNetwork ==
    \A w \in Workers :
        (op[w] = "query" /\ ~readyAtCheck[w]) =>
            /\ pc[w] = "idle"
            /\ ret[w] = Str(NotInitMsg)
            /\ attempts[w] = 0
            /\ resp[w] = NoResp

\* a query was refused after the session had once been established
C1_Witness ==
    \E w \in Workers :
        /\ op[w] = "query" /\ ~readyAtCheck[w] /\ site[w] = "L448"
        /\ accepted # {}

\* C2: whenever no method is running, is_initialized is true if and only if
\* session_id holds a token the remote endpoint issued.
C2_InitializedIffAcceptedToken ==
    Quiescent => (is_initialized <=> session_id \in accepted)

\* the failure value the claim expects initialize to return
ExpectedInitFailure(r) == [ type |-> "Failure", val |-> << InitFailureCause(r) >> ]

\* the log line _initialize_session writes for a failed handshake
ExpectedInitLog(r) ==
    IF r.kind = "timeout" THEN InitLogTimeout
    ELSE IF r.kind = "conn_error" THEN InitLogNetwork(r.err)
    ELSE IF r.status # 200 THEN InitLogFailed(StatusFailText(r.status, r.body))
    ELSE InitLogFailed(NoSessionText)

FailureSites == { "L448", "L492", "L500", "L504", "L509", "L513", "L517" }

C6_SuccessStatusOutcomes ==
    \A w \in Workers :
        (QueryEnded(w) /\ resp[w].kind = "http" /\ resp[w].status = 200) =>
            LET b == resp[w].body
                t == parse_sse_response(b)
                marked == t = << >> \/ \E m \in DiagMarkers : StartsWith(t, m)
            IN  /\ Blank(b) => (site[w] = "L492" /\ ret[w] = Str(EmptyMsg))
                /\ (~Blank(b) /\ marked) => (site[w] = "L500" /\ ret[w] = Str(t))
                /\ (~Blank(b) /\ ~marked) => (site[w] = "L497" /\ ret[w] = Str(t))

\* a stream without a message event ended in the failure return
C6_Witness ==
    \E w \in Workers :
        /\ QueryEnded(w) /\ resp[w].status = 200
        /\ site[w] = "L500"
        /\ StartsWith(ret[w].val, << "No message event" >>)

\* C7: a method call makes at most one POST, and after a POST has ended the method
\* does not go back to sending.
C7_SingleAttemptNoRetry ==
    \A w \in Workers :
        /\ attempts[w] <= 1
        /\ pc[w] = "q_send" => (attempts[w] = 0 /\ resp[w] = NoResp)
        /\ (resp[w].kind # "none") => pc[w] \in { "idle", "init_check", "init_log" }

\* a query timed out after its one POST
C7_Witness ==
    \E w \in Workers :
        QueryEnded(w) /\ site[w] = "L509" /\ attempts[w] = 1

\* C9: at most one handshake is in flight at any time.
C9_OneHandshakeInFlight ==
    Cardinality({ w \in Workers : pc[w] = "init_wait" }) <= 1

\* C10: a query in flight carries a session token the remote endpoint issued.
C10_QueryCarriesAcceptedToken ==
    \A w \in Workers : pc[w] = "q_wait" => sentToken[w] \in accepted

-----------------------------------------------------------------------------
(* Claim about the normalisation *)

\* C8: for an owner/repo spelling and a full-URL spelling of the same repository,
\* the normalisation in query yields the identical identifier, namely owner/repo.
C8_SameIdentifier ==
    norm.done => /\ norm.outShort = norm.short
                 /\ norm.outUrl = norm.short

-----------------------------------------------------------------------------
(* Bounds of the generation pipeline *)

\* most targets one request names
MaxTargets == 2

-----------------------------------------------------------------------------
(* Agents and their filenames *)

\* the backend's table of supported agents: id -> filename of the generated file
AGENT_CONFIG ==
    [ id \in { "claude", "cursor", "windsurf", "gemini" } |->
        IF id = "claude" THEN "claude.md"
        ELSE IF id = "cursor" THEN "project_general.md"
        ELSE IF id = "windsurf" THEN "windsurf.md"
        ELSE "gemini.md" ]

KnownIds == DOMAIN AGENT_CONFIG

AgentIds == { "claude", "cursor", "windsurf", "gemini", "cline", "bolt", "vscode",
              "intellij", "lovable" }

\* the frontend configurations the sources hold; they differ in the cursor and the
\* cline entry
FrontendConfigs == { "cursorrules", "project_general" }

\* AGENTS of the frontend configuration cfg: fileName and active of every entry
AGENTS(cfg) ==
    [ id \in AgentIds |->
        [ fileName |-> IF id = "cursor"
                       THEN (IF cfg = "cursorrules" THEN "cursor.md or .cursorrules.md"
                             ELSE "project_general.md")
                       ELSE IF id = "claude" THEN "claude.md"
                       ELSE IF id = "windsurf" THEN "windsurf.md"
                       ELSE IF id = "gemini" THEN "gemini.md"
                       ELSE IF id = "cline" THEN "cline.md"
                       ELSE IF id = "bolt" THEN "bolt.md"
                       ELSE IF id = "vscode" THEN "vscode.md"
                       ELSE IF id = "intellij" THEN "intellij.md"
                       ELSE "lovable.md",
          active   |-> \/ id \in { "claude", "cursor", "windsurf", "gemini" }
                       \/ id = "cline" /\ cfg = "cursorrules" ] ]

\* AGENTS.filter(agent => agent.active): the agents the form offers
ActiveIds(cfg) == { id \in AgentIds : AGENTS(cfg)[id].active }

-----------------------------------------------------------------------------
(* Packaging: footer, per-agent hook, single file or archive *)

FooterLine ==
    "Generated using [DeepCode](https://github.com/your-org/deepcode), your coding agent sidekick."

\* a plausible slip: the footer is appended twice
FooterTwice ==
    << "<newline>", "---", "<newline>", FooterLine, "<newline>", "---", "<newline>", FooterLine >>

\* what every generated file ends with: a rule, then the attribution line
Footer == << "<newline>", "---", "<newline>", FooterLine >>

\* number of times piece occurs in text
Occurrences(text, piece) == Cardinality({ i \in 1..Len(text) : text[i] = piece })

\* a plausible slip: the hook puts the agent's name in front of the content
customize_markdown_tagged(markdown, agent) == << agent >> \o markdown

\* the per-agent hook: currently returns the markdown as it is
customize_markdown_for_agent(markdown, agent) == markdown

\* content of the file generated for id
ArtifactContent(content, id) == customize_markdown_for_agent(content, id) \o Footer

\* a plausible slip: the file is named after the agent id
ArtifactNameById(id) == id

\* filename of the file generated for id
ArtifactName(id) == AGENT_CONFIG[id]

GeneratedArtifact(content, id) ==
    [ filename |-> ArtifactName(id), content |-> ArtifactContent(content, id) ]

ArchiveName == "context_files.zip"

\* a plausible slip: a second entry of the same filename is accepted
CollidesNever(target_ids) == FALSE

\* two requested targets resolve to the same filename
Collides(target_ids) ==
    \E i, j \in 1..Len(target_ids) :
        i # j /\ ArtifactName(target_ids[i]) = ArtifactName(target_ids[j])

NoOutput == [ kind |-> "none", filename |-> "", entries |-> << >> ]

\* OutputPackager.package: one file for one target, an archive for several
package(content, target_ids) ==
    IF Collides(target_ids)
    THEN [ NoOutput EXCEPT !.kind = "PackagingError" ]
    ELSE LET n == Len(target_ids)
             entries == [ i \in 1..n |-> GeneratedArtifact(content, target_ids[i]) ]
         IN  IF n = 1
             THEN [ kind |-> "single", filename |-> entries[1].filename, entries |-> entries ]
             ELSE [ kind |-> "archive", filename |-> ArchiveName, entries |-> entries ]

\* the archive as bytes and its base64 text, as the response carries it
Zip(entries) == [ zip |-> entries ]

Base64(bytes) == [ base64 |-> bytes ]

atob(text) == text.base64

NoData == [ is_zip |-> FALSE, filename |-> "", file_content |-> << >> ]

\* body of the success response of POST /api/generate
ResponseData(out) ==
    IF out.kind = "archive"
    THEN [ is_zip |-> TRUE, filename |-> out.filename,
           file_content |-> Base64(Zip(out.entries)) ]
    ELSE [ is_zip |-> FALSE, filename |-> out.filename,
           file_content |-> out.entries[1].content ]

NoFile == [ name |-> "", type |-> "none", body |-> << >> ]

\* a plausible slip: the single file is always saved as claude.md
DownloadAsClaude(data) ==
    IF data.is_zip
    THEN [ name |-> data.filename, type |-> "application/zip", body |-> atob(data.file_content) ]
    ELSE [ name |-> "claude.md", type |-> "text/markdown", body |-> data.file_content ]

\* the file the page saves for a success response
Download(data) ==
    IF data.is_zip
    THEN [ name |-> data.filename, type |-> "application/zip", body |-> atob(data.file_content) ]
    ELSE [ name |-> data.filename, type |-> "text/markdown", body |-> data.file_content ]

-----------------------------------------------------------------------------
(* Packaging harness: package applied to a content and a list of target ids, *)
(* then the page's download of the response                                  *)

\* analysis texts: plain ones, and one that quotes the attribution line itself
Contents ==
    { << "X" >>, << "# Overview", " and more" >>, << "# Overview", FooterLine >>,
      << "---" >> }

\* non-empty lists of known ids, repetitions included
IdLists == { l \in SeqsUpTo(KnownIds, MaxTargets) : l # << >> }

PkgIdle == [ content |-> << >>, target_ids |-> << >>, out |-> NoOutput, data |-> NoData,
             file |-> NoFile, step |-> "idle" ]

harnessIdle ==
    /\ norm = NormIdle /\ pair = PairIdle
    /\ session_id = NoneVal /\ is_initialized = FALSE /\ accepted = {} /\ constructed = FALSE
    /\ pc = << >> /\ op = << >> /\ resp = << >> /\ ret = << >> /\ site = << >>
    /\ fault = << >> /\ attempts = << >> /\ readyAtCheck = << >> /\ sentToken = << >>
    /\ repo_name = << >> /\ log = << >>

PkgInit ==
    /\ pkg \in { [ PkgIdle EXCEPT !.content = c, !.target_ids = l, !.step = "new" ] :
                   c \in Contents, l \in IdLists }
    /\ gen = << >> /\ sse = << >> /\ ui = << >>
    /\ harnessIdle

\* the backend packages the content and builds the response
PackageCall ==
    /\ pkg.step = "new"
    /\ LET out == package(pkg.content, pkg.target_ids)
       IN  pkg' = [ pkg EXCEPT !.out = out,
                               !.data = IF out.kind = "PackagingError" THEN NoData
                                        ELSE ResponseData(out),
                               !.step = "packaged" ]
    /\ UNCHANGED << norm, pair, gen, sse, ui, clientVars >>

\* the page saves the file of a success response
DownloadFile ==
    /\ pkg.step = "packaged"
    /\ pkg.out.kind # "PackagingError"
    /\ pkg' = [ pkg EXCEPT !.file = Download(pkg.data), !.step = "downloaded" ]
    /\ UNCHANGED << norm, pair, gen, sse, ui, clientVars >>

PkgNext == PackageCall \/ DownloadFile

PkgSpec == PkgInit /\ [][PkgNext]_vars

-----------------------------------------------------------------------------
(* Claims about the packaging *)

\* the filename the specification gives for a target id
ClaimedFilename(id) ==
    IF id = "claude" THEN "claude.md"
    ELSE IF id = "cursor" THEN "project_general.md"
    ELSE IF id = "windsurf" THEN "windsurf.md"
    ELSE IF id = "gemini" THEN "gemini.md"
    ELSE "<no filename>"

Packaged == pkg.step \in { "packaged", "downloaded" }

SingleTarget == Len(pkg.target_ids) = 1

\* the single file is named as claimed, holds content then footer, and is saved so
SingleFileAsClaimed ==
    LET id == pkg.target_ids[1]
    IN  /\ pkg.out.kind = "single"
        /\ pkg.out.filename = ClaimedFilename(id)
        /\ Len(pkg.out.entries) = 1
        /\ pkg.out.entries[1].filename = ClaimedFilename(id)
        /\ pkg.out.entries[1].content = pkg.content \o Footer
        /\ pkg.step = "downloaded" =>
               pkg.file = [ name |-> ClaimedFilename(id), type |-> "text/markdown",
                            body |-> pkg.content \o Footer ]

DistinctTargets ==
    /\ Len(pkg.target_ids) >= 2
    /\ \A i, j \in 1..Len(pkg.target_ids) : i # j => pkg.target_ids[i] # pkg.target_ids[j]

\* C17: for two or more distinct target ids, package yields one archive with
\* exactly one entry per requested target, each at the target's canonical filename
\* itself (nothing in front of it) and each holding the content followed by one
\* footer; the page saves that archive.
C17_ArchiveOneEntryPerTarget ==
    (Packaged /\ DistinctTargets) =>
        LET n == Len(pkg.target_ids)
        IN  /\ pkg.out.kind = "archive"
            /\ Len(pkg.out.entries) = n
            /\ \A i \in 1..n :
                   /\ Cardinality({ k \in 1..Len(pkg.out.entries) :
                          pkg.out.entries[k].filename = ClaimedFilename(pkg.target_ids[i]) }) = 1
                   /\ pkg.out.entries[i].filename = ClaimedFilename(pkg.target_ids[i])
                   /\ pkg.out.entries[i].content = pkg.content \o Footer
                   /\ Occurrences(pkg.out.entries[i].content, FooterLine)
                         = Occurrences(pkg.content, FooterLine) + 1
            /\ pkg.step = "downloaded" =>
                   /\ pkg.file.type = "application/zip"
                   /\ pkg.file.name = pkg.out.filename
                   /\ pkg.file.body = [ zip |-> pkg.out.entries ]

\* an archive for gemini and cursor has been saved
C17_Witness ==
    /\ pkg.step = "downloaded"
    /\ pkg.target_ids = << "gemini", "cursor" >>
    /\ pkg.file.type = "application/zip"
    /\ Len(pkg.file.body.zip) = 2
    /\ pkg.file.body.zip[2].filename = "project_general.md"

\* two of the requested targets have the same claimed filename
SameFilenameRequested ==
    \E i, j \in 1..Len(pkg.target_ids) :
        i # j /\ ClaimedFilename(pkg.target_ids[i]) = ClaimedFilename(pkg.target_ids[j])

\* C18: package called with two requested targets that resolve to the same
\* filename returns PackagingError: no archive and no entry is produced, and
\* nothing is saved.
C18_CollisionIsPackagingError ==
    (pkg.step # "new" /\ SameFilenameRequested) =>
        /\ pkg.out = [ NoOutput EXCEPT !.kind = "PackagingError" ]
        /\ pkg.data = NoData
        /\ pkg.file = NoFile
        /\ pkg.step = "packaged"

\* cursor requested twice has been refused
C18_Witness ==
    /\ pkg.step = "packaged"
    /\ pkg.target_ids = << "cursor", "cursor" >>
    /\ pkg.out.kind = "PackagingError"

-----------------------------------------------------------------------------
(* The generation pipeline: texts and results *)

\* String.prototype.trim on a sequence of characters
RECURSIVE TrimLeft(_)
TrimLeft(s) == IF s # << >> /\ Head(s) = " " THEN TrimLeft(Tail(s)) ELSE s

RECURSIVE TrimRight(_)
TrimRight(s) ==
    IF s # << >> /\ s[Len(s)] = " " THEN TrimRight(SubSeq(s, 1, Len(s) - 1)) ELSE s

Trim(s) == TrimRight(TrimLeft(s))

\* phrases of the remote service that the classifier knows
PrivateMarker == "requires a DeepWiki account"

NotIndexedMarker == "not yet indexed"

Contains(text, piece) == \E i \in 1..Len(text) : text[i] = piece

NoResult == [ kind |-> "none", content |-> << >>, detail |-> << >> ]

Success(content) == [ kind |-> "Success", content |-> content, detail |-> << >> ]

Failure(kind, detail) == [ kind |-> kind, content |-> << >>, detail |-> detail ]

\* a plausible slip: the empty-response message is not recognised as a failure
FailureKindOfNoEmpty(text) ==
    IF text = NotInitMsg THEN "NotInitialized"
    ELSE IF text = TimeoutMsg THEN "Timeout"
    ELSE IF StartsWith(text, << "Error connecting to DeepWiki: " >>) THEN "NetworkError"
    ELSE IF StartsWith(text, << "Error processing DeepWiki response: " >>) THEN "NetworkError"
    ELSE IF StartsWith(text, << "DeepWiki API Error " >>) THEN "RemoteError"
    ELSE IF text = << >> \/ \E m \in DiagMarkers : StartsWith(text, m) THEN "ParseError"
    ELSE "none"

\* the kind of failure a string returned by query stands for; "none" for content.
\* query returns its failures as messages, so the kind is read off the message.
FailureKindOf(text) ==
    IF text = NotInitMsg THEN "NotInitialized"
    ELSE IF text = EmptyMsg THEN "EmptyResponse"
    ELSE IF text = TimeoutMsg THEN "Timeout"
    ELSE IF StartsWith(text, << "Error connecting to DeepWiki: " >>) THEN "NetworkError"
    ELSE IF StartsWith(text, << "Error processing DeepWiki response: " >>) THEN "NetworkError"
    ELSE IF StartsWith(text, << "DeepWiki API Error " >>) THEN "RemoteError"
    ELSE IF text = << >> \/ \E m \in DiagMarkers : StartsWith(text, m) THEN "ParseError"
    ELSE "none"

\* RepositoryQueryClient.analyze: the string of query as Success or Failure
AnalysisResult(text) ==
    IF FailureKindOf(text) = "none" THEN Success(text)
    ELSE Failure(FailureKindOf(text), text)

\* the analysis page of a repository
HintUrl(repository) == << "https://deepwiki.com/" >> \o repository

Absent == [ kind |-> "absent", hint_url |-> << >> ]

\* ErrorClassifier.classify: the failure text is searched for the known phrases
classify(result, repository_hint) ==
    IF result.kind \in { "none", "Success" } \/ repository_hint = General THEN Absent
    ELSE IF Contains(result.detail, PrivateMarker)
         THEN [ kind |-> "RepositoryPrivate", hint_url |-> HintUrl(repository_hint) ]
    ELSE IF Contains(result.detail, NotIndexedMarker)
         THEN [ kind |-> "RepositoryNotIndexed", hint_url |-> HintUrl(repository_hint) ]
    ELSE Absent

NoError == [ kind |-> "none", detail |-> << >>, repo_kind |-> "none", hint_url |-> << >> ]

InvalidInput == [ NoError EXCEPT !.kind = "InvalidInput" ]

PackagingError == [ NoError EXCEPT !.kind = "PackagingError" ]

Generic(detail) == [ NoError EXCEPT !.kind = "Generic", !.detail = detail ]

RepositoryError(c, detail) ==
    [ kind |-> "RepositoryError", detail |-> detail, repo_kind |-> c.kind,
      hint_url |-> c.hint_url ]

\* a plausible slip: target ids are not looked up in the table
ValidInputAnyId(repository_url, target_ids) ==
    /\ repository_url # << >>
    /\ target_ids # {}

\* Validating: a URL, at least one target, and only known targets
ValidInput(repository_url, target_ids) ==
    /\ repository_url # << >>
    /\ target_ids # {}
    /\ target_ids \subseteq KnownIds

\* a plausible slip: a failed analysis is packaged all the same
AfterAnalysisAlwaysPackaging(result) == "Packaging"

\* where generate goes when the analysis has returned
AfterAnalysis(result) == IF result.kind = "Success" THEN "Packaging" ELSE "Classifying"

\* the order in which a set of targets is handed to the packager
TargetOrder == << "claude", "cursor", "windsurf", "gemini", "cline", "bolt", "vscode",
                  "intellij", "lovable" >>

InSet(S) == [ i \in 1..Len(TargetOrder) |-> TargetOrder[i] \in S ]

RECURSIVE ListFrom(_, _)
ListFrom(S, i) ==
    IF i > Len(TargetOrder) THEN << >>
    ELSE (IF InSet(S)[i] THEN << TargetOrder[i] >> ELSE << >>) \o ListFrom(S, i + 1)

ListOf(S) == ListFrom(S, 1)

\* body of the error response of POST /api/generate
ErrorData(error) ==
    IF error.kind = "RepositoryError"
    THEN [ error_type |-> "repository_not_found", error |-> error.detail,
           deepwiki_url |-> error.hint_url,
           repo_type |-> IF error.repo_kind = "RepositoryPrivate" THEN "private"
                         ELSE "not_indexed" ]
    ELSE [ error_type |-> "none", error |-> error.detail, deepwiki_url |-> << >>,
           repo_type |-> "none" ]

NoRepositoryError == [ type |-> "none", message |-> << >>, deepwikiUrl |-> << >>,
                       repoType |-> "none" ]

\* a plausible slip: the link to the analysis page is not taken over
RepositoryErrorNoUrl(errorData) ==
    [ type |-> errorData.error_type, message |-> errorData.error, deepwikiUrl |-> << >>,
      repoType |-> errorData.repo_type ]

\* the object handleGenerate passes to setRepositoryError
RepositoryErrorOf(errorData) ==
    [ type |-> errorData.error_type, message |-> errorData.error,
      deepwikiUrl |-> errorData.deepwiki_url, repoType |-> errorData.repo_type ]

\* a plausible slip: only the URL is checked before the request is sent
FormRejectsUrlOnly(githubUrl, selectedAgents) ==
    IF Trim(githubUrl) = << >> THEN "GitHub URL Required" ELSE "none"

\* the toast with which handleGenerate refuses the form; "none": the request is sent
FormRejects(githubUrl, selectedAgents) ==
    IF Trim(githubUrl) = << >> THEN "GitHub URL Required"
    ELSE IF selectedAgents = {} THEN "Select Agents"
    ELSE "none"

-----------------------------------------------------------------------------
(* The generation pipeline: the page's click, the backend call, the page's   *)
(* handling of the response                                                  *)

GenIdle(cfg) ==
    [ config |-> cfg, via |-> "none", state |-> "Idle", path |-> << >>,
      url |-> << >>, targets |-> {}, repository |-> << >>,
      handshakes |-> 0, queries |-> 0, posts |-> 0, resp |-> NoResp, site |-> "none",
      text |-> << >>, result |-> NoResult, error |-> NoError, output |-> NoOutput,
      fetches |-> 0, toast |-> "none", shown |-> {},
      repositoryError |-> NoRepositoryError, file |-> NoFile, delivered |-> FALSE ]

Terminal == { "Done", "Failed" }

\* no generation is running: the form accepts a click, the server a request
CallEnded ==
    \/ gen.state = "Idle"
    \/ gen.state \in Terminal /\ (gen.via = "api" \/ gen.delivered)

callerVars == << pc, op, resp, ret, site, fault, attempts, readyAtCheck, sentToken,
                 repo_name, log >>

sessionVars == << session_id, is_initialized, accepted, constructed >>

\* the placement guide: the file name the page shows for every selected agent
PlacementGuide(cfg, selectedAgents) ==
    { << id, AGENTS(cfg)[id].fileName >> : id \in selectedAgents }

\* the page: "Generate & Download" is clicked
handleGenerate(githubUrl, selectedAgents) ==
    /\ CallEnded
    /\ LET refused == FormRejects(githubUrl, selectedAgents)
           fresh   == GenIdle(gen.config)
       IN  gen' = IF refused # "none"
                  THEN [ fresh EXCEPT !.toast = refused,
                                      !.repositoryError = gen.repositoryError ]
                  ELSE [ fresh EXCEPT !.via = "page",
                                      !.state = "Validating",
                                      !.path = << "Validating" >>,
                                      !.url = Trim(githubUrl),
                                      !.targets = selectedAgents,
                                      !.fetches = 1,
                                      !.shown = PlacementGuide(gen.config, selectedAgents) ]
    /\ UNCHANGED << sessionVars, callerVars, norm, pair, pkg, sse, ui >>

\* another client posts to /api/generate
ApiRequest(github_url, selected_agents) ==
    /\ CallEnded
    /\ gen' = [ GenIdle(gen.config) EXCEPT !.via = "api",
                                           !.state = "Validating",
                                           !.path = << "Validating" >>,
                                           !.url = github_url,
                                           !.targets = selected_agents ]
    /\ UNCHANGED << sessionVars, callerVars, norm, pair, pkg, sse, ui >>

\* generate, Validating
Validate ==
    /\ gen.state = "Validating"
    /\ gen' = IF ValidInput(gen.url, gen.targets)
              THEN [ gen EXCEPT !.state = "Analyzing",
                                !.path = Append(gen.path, "Analyzing"),
                                !.repository = NormalizeRepository(gen.url) ]
              ELSE [ gen EXCEPT !.state = "Failed",
                                !.path = Append(gen.path, "Failed"),
                                !.error = InvalidInput ]
    /\ UNCHANGED << sessionVars, callerVars, norm, pair, pkg, sse, ui >>

\* a plausible slip: every call of generate runs the handshake before its query
EnsureSessionEveryCall(h) ==
    /\ gen.state = "Analyzing"
    /\ gen.handshakes = 0 /\ gen.queries = 0
    /\ LET issued == PostRaises(h) = "none" /\ h.status = 200
       IN  /\ session_id' = IF issued THEN h.header ELSE session_id
           /\ is_initialized' = IF issued /\ Truthy(h.header) THEN TRUE
                                ELSE ReadyAfterFailure(is_initialized)
           /\ accepted' = IF issued THEN accepted \cup ({ h.header } \cap Tokens)
                          ELSE accepted
    /\ constructed' = TRUE
    /\ gen' = [ gen EXCEPT !.handshakes = gen.handshakes + 1 ]
    /\ UNCHANGED << callerVars, norm, pair, pkg, sse, ui >>

\* generate, Analyzing, first call of the process: the client is constructed, and
\* its constructor runs the handshake to its end
EnsureSession(h) ==
    /\ gen.state = "Analyzing"
    /\ ~constructed
    /\ LET issued == PostRaises(h) = "none" /\ h.status = 200
       IN  /\ session_id' = IF issued THEN h.header ELSE session_id
           /\ is_initialized' = IF issued /\ Truthy(h.header) THEN TRUE
                                ELSE ReadyAfterFailure(is_initialized)
           /\ accepted' = IF issued THEN accepted \cup ({ h.header } \cap Tokens)
                          ELSE accepted
    /\ constructed' = TRUE
    /\ gen' = [ gen EXCEPT !.handshakes = gen.handshakes + 1 ]
    /\ UNCHANGED << callerVars, norm, pair, pkg, sse, ui >>

\* generate, Analyzing: the one call of query, with the response r of its POST
Analyze(r) ==
    /\ gen.state = "Analyzing"
    /\ constructed
    /\ gen.queries = 0
    /\ LET refused == NotReady(is_initialized)
           out     == QueryOutcome(r)
           text    == IF refused THEN NotInitMsg ELSE out.ret.val
           result  == AnalysisResult(text)
       IN  gen' = [ gen EXCEPT !.queries = gen.queries + 1,
                               !.posts = IF refused THEN gen.posts ELSE gen.posts + 1,
                               !.resp = IF refused THEN NoResp ELSE r,
                               !.site = IF refused THEN "L448" ELSE out.site,
                               !.text = text,
                               !.result = result,
                               !.state = AfterAnalysis(result),
                               !.path = Append(gen.path, AfterAnalysis(result)) ]
    /\ UNCHANGED << sessionVars, callerVars, norm, pair, pkg, sse, ui >>

\* generate, Classifying: a repository error or a generic failure
Classify ==
    /\ gen.state = "Classifying"
    /\ LET c == classify(gen.result, gen.repository)
       IN  gen' = [ gen EXCEPT !.error = IF c = Absent THEN Generic(gen.result.detail)
                                        ELSE RepositoryError(c, gen.result.detail),
                               !.state = "Failed",
                               !.path = Append(gen.path, "Failed") ]
    /\ UNCHANGED << sessionVars, callerVars, norm, pair, pkg, sse, ui >>

\* generate, Packaging: the one content goes to every requested target
PackageOutput ==
    /\ gen.state = "Packaging"
    /\ LET out == package(gen.result.content, ListOf(gen.targets))
       IN  gen' = IF out.kind = "PackagingError"
                  THEN [ gen EXCEPT !.error = PackagingError,
                                    !.state = "Failed",
                                    !.path = Append(gen.path, "Failed") ]
                  ELSE [ gen EXCEPT !.output = out,
                                    !.state = "Done",
                                    !.path = Append(gen.path, "Done") ]
    /\ UNCHANGED << sessionVars, callerVars, norm, pair, pkg, sse, ui >>

\* the page: the response of its request arrives
HandleResponse ==
    /\ gen.via = "page"
    /\ gen.state \in Terminal
    /\ ~gen.delivered
    /\ LET errorData == ErrorData(gen.error)
       IN  gen' = IF gen.state = "Done"
                  THEN [ gen EXCEPT !.file = Download(ResponseData(gen.output)),
                                    !.delivered = TRUE ]
                  ELSE IF errorData.error_type = "repository_not_found"
                  THEN [ gen EXCEPT !.repositoryError = RepositoryErrorOf(errorData),
                                    !.shown = {},
                                    !.delivered = TRUE ]
                  ELSE [ gen EXCEPT !.toast = "Generation Failed",
                                    !.repositoryError = NoRepositoryError,
                                    !.shown = {},
                                    !.delivered = TRUE ]
    /\ UNCHANGED << sessionVars, callerVars, norm, pair, pkg, sse, ui >>

RepoUrl == HttpsPrefix \o << "o", "/", "r" >>

\* what the URL field may hold when the button is clicked
PageUrls == { << >>, << " " >>, RepoUrl, << " " >> \o RepoUrl \o << " " >> }

\* the check boxes offer the active agents
PageSelections(cfg) == { S \in SUBSET ActiveIds(cfg) : Cardinality(S) <= MaxTargets }

ApiUrls == { << >>, RepoUrl }

ApiSelections == { {}, { "gemini" }, { "claude", "bolt" }, { "windsurf", "cursor" } }

\* answers of the remote endpoint to the analysis query
GenBodies ==
    { << >>,
      DocBody,
      << EvMessage, DataResult, "# Overview", FooterLine, Sep >>,
      << EvMessage, DataResult, "Request to DeepWiki timed out", Sep >>,
      << EvMessage, DataError, " Repository not found: ", PrivateMarker, Sep >>,
      << EvMessage, DataError, " Repository is ", NotIndexedMarker, Sep >>,
      << EvMessage, DataError, " Repository not found", Sep >>,
      << EvPing, Sep >> }

GenResponses ==
    { TimeoutResp, ConnResp(<< "Connection refused" >>),
      HttpResp(500, NoneVal, << "<html>" >>),
      HttpResp(500, NoneVal, << "Repository not found: ", PrivateMarker >>) }
    \cup { HttpResp(200, NoneVal, b) : b \in GenBodies }

GenInit ==
    /\ gen \in { GenIdle(cfg) : cfg \in FrontendConfigs }
    /\ pkg = PkgIdle /\ sse = << >> /\ ui = << >>
    /\ harnessIdle

\* the steps of generate
BackendStep ==
    \/ Validate
    \/ \E h \in HandshakeResponses : EnsureSession(h)
    \/ \E r \in GenResponses : Analyze(r)
    \/ Classify
    \/ PackageOutput

GenNext ==
    \/ \E githubUrl \in PageUrls, selectedAgents \in PageSelections(gen.config) :
           handleGenerate(githubUrl, selectedAgents)
    \/ \E github_url \in ApiUrls, selected_agents \in ApiSelections :
           ApiRequest(github_url, selected_agents)
    \/ Validate
    \/ \E h \in HandshakeResponses : EnsureSession(h)
    \/ \E r \in GenResponses : Analyze(r)
    \/ Classify
    \/ PackageOutput
    \/ HandleResponse

GenSpec == GenInit /\ [][GenNext]_vars

-----------------------------------------------------------------------------
(* Claims about the generation pipeline *)

IsPrefix(p, q) == Len(p) <= Len(q) /\ SubSeq(q, 1, Len(p)) = p

Running == gen.state \in { "Validating", "Analyzing", "Classifying", "Packaging" }

\* the courses of a call that passes through Analyzing
AnalyzedPaths ==
    { << "Validating", "Analyzing", "Classifying", "Failed" >>,
      << "Validating", "Analyzing", "Packaging", "Done" >>,
      << "Validating", "Analyzing", "Packaging", "Failed" >> }

RejectedPath == << "Validating", "Failed" >>

\* what holds of a call whatever its course: it is at the end of its path, it
\* classifies only a Failure and packages only a Success, it can always take its
\* next step, and it ends with an output or with an error, never with both
CallWellFormed ==
    /\ gen.path # << >> /\ gen.path[Len(gen.path)] = gen.state
    /\ Contains(gen.path, "Classifying") =>
           gen.result.kind \notin { "none", "Success" }
    /\ Contains(gen.path, "Packaging") => gen.result.kind = "Success"
    /\ gen.result.kind \notin { "none", "Success" } =>
           ~Contains(gen.path, "Packaging") /\ ~Contains(gen.path, "Done")
    /\ Running => ENABLED BackendStep
    /\ gen.state = "Done" => (gen.output # NoOutput /\ gen.error = NoError)
    /\ gen.state = "Failed" => (gen.output = NoOutput /\ gen.error # NoError)

\* C11 (as stated): every generate call moves through Validating, Analyzing, then
\* Classifying (only after a Failure) or Packaging (only after a Success), and
\* ends in Done or Failed; Packaging and Done are never reached after a Failure.
C11_EveryCallThroughAnalyzing ==
    gen.state # "Idle" =>
        /\ \E p \in AnalyzedPaths : IsPrefix(gen.path, p)
        /\ CallWellFormed

\* C11 (amended): every generate call starts in Validating; a call refused there
\* ends in Failed with InvalidInput at once; every other call moves through
\* Analyzing, then Classifying (only after a Failure) or Packaging (only after a
\* Success), and ends in Done or Failed; Packaging and Done are never reached
\* after a Failure.
C11_RejectedOrThroughAnalyzing ==
    gen.state # "Idle" =>
        /\ \/ \E p \in AnalyzedPaths : IsPrefix(gen.path, p)
           \/ gen.path = RejectedPath /\ gen.error = InvalidInput
        /\ CallWellFormed

\* a call on a ready session timed out and ended in Failed after Classifying
C11_Witness ==
    /\ gen.path = << "Validating", "Analyzing", "Classifying", "Failed" >>
    /\ gen.result.kind = "Timeout"
    /\ is_initialized

\* the request names no URL, no target, or a target the specification does not know
InvalidRequest ==
    \/ gen.url = << >>
    \/ gen.targets = {}
    \/ \E id \in gen.targets : ClaimedFilename(id) = "<no filename>"

NoNetworkCall ==
    /\ gen.handshakes = 0 /\ gen.queries = 0 /\ gen.posts = 0
    /\ gen.resp = NoResp /\ gen.site = "none"

\* C12: an empty URL, an empty target set or an unknown target id is rejected with
\* InvalidInput, and neither a handshake nor a query is attempted for it: the page
\* refuses an empty URL or selection without sending the request, and generate
\* refuses what reaches it in Validating.
C12_InvalidInputNoNetwork ==
    /\ gen.toast \in { "GitHub URL Required", "Select Agents" } =>
           (gen.state = "Idle" /\ gen.fetches = 0 /\ NoNetworkCall)
    /\ gen.via = "page" => (gen.url # << >> /\ gen.targets # {} /\ gen.fetches = 1)
    /\ (gen.state # "Idle" /\ InvalidRequest) =>
           /\ gen.state \in { "Validating", "Failed" }
           /\ gen.state = "Failed" => (gen.error = InvalidInput /\ gen.path = RejectedPath)
           /\ NoNetworkCall
    /\ gen.error = InvalidInput => InvalidRequest

\* the page sent cline, which the backend does not know, and the call was refused
\* before the client was even constructed
C12_Witness ==
    /\ gen.via = "page" /\ "cline" \in gen.targets
    /\ gen.state = "Failed" /\ gen.error = InvalidInput
    /\ ~constructed /\ gen.handshakes = 0

\* the analysis page the claim expects as hint
ExpectedHint == << "https://deepwiki.com/" >> \o NormalizeRepository(gen.url)

Classified == gen.state = "Failed" /\ Contains(gen.path, "Classifying")

ClassifiedAs(kind, repo_type) ==
    /\ gen.error.kind = "RepositoryError"
    /\ gen.error.repo_kind = kind
    /\ gen.error.hint_url = ExpectedHint /\ gen.error.hint_url # << >>
    /\ (gen.via = "page" /\ gen.delivered) =>
           /\ gen.repositoryError.type = "repository_not_found"
           /\ gen.repositoryError.repoType = repo_type
           /\ gen.repositoryError.deepwikiUrl = ExpectedHint

\* C13: for a concrete repository, a failure text with the "requires a DeepWiki
\* account" marker is classified RepositoryPrivate and one with the "not yet
\* indexed" marker RepositoryNotIndexed, both with the hint URL of the normalized
\* owner/repo, which the page takes over into its repository error.
C13_MarkersClassifiedWithHint ==
    Classified =>
        /\ Contains(gen.result.detail, PrivateMarker) =>
               ClassifiedAs("RepositoryPrivate", "private")
        /\ Contains(gen.result.detail, NotIndexedMarker) =>
               ClassifiedAs("RepositoryNotIndexed", "not_indexed")

\* the page shows the error of a repository that is not yet indexed
C13_Witness ==
    /\ gen.via = "page" /\ gen.delivered
    /\ gen.site = "L500"
    /\ gen.repositoryError.repoType = "not_indexed"
    /\ gen.repositoryError.deepwikiUrl = << "https://deepwiki.com/", "o", "/", "r" >>

\* query left through one of its failure returns
QueryFailed == gen.site \notin { "none", "L497" }

Unmarked == ~Contains(gen.text, PrivateMarker) /\ ~Contains(gen.text, NotIndexedMarker)

TransportKinds == { "NotInitialized", "NetworkError", "Timeout", "RemoteError" }

\* C15: a failure of kind NotInitialized, NetworkError, Timeout or RemoteError ends
\* as a generic failure whatever its detail text, and a repository error is
\* RepositoryPrivate or RepositoryNotIndexed and carries a hint URL.
C15_TransportFailuresGeneric ==
    /\ (gen.state = "Failed" /\ gen.result.kind \in TransportKinds) =>
           gen.error.kind = "Generic"
    /\ gen.error.kind = "RepositoryError" =>
           /\ gen.error.repo_kind \in { "RepositoryPrivate", "RepositoryNotIndexed" }
           /\ gen.error.hint_url # << >>

ShownAsClaimed == \A s \in gen.shown : s[1] \in KnownIds => s[2] = ClaimedFilename(s[1])

\* C19: the table from target id to filename is the fixed one, no two ids share a
\* filename, and the same filenames are used wherever one is produced (the
\* generated files) or shown (the page's placement guide).
C19_OneFilenameTableEverywhere ==
    /\ \A id \in KnownIds : AGENT_CONFIG[id] = ClaimedFilename(id)
    /\ \A a, b \in KnownIds : a # b => AGENT_CONFIG[a] # AGENT_CONFIG[b]
    /\ gen.state = "Done" =>
           \A i \in 1..Len(gen.output.entries) :
               gen.output.entries[i].filename = ClaimedFilename(ListOf(gen.targets)[i])
    /\ ShownAsClaimed

\* C20: a generate call with N >= 1 targets calls the analysis once, with at most
\* one POST, and when it ends in Done that one POST's text is the body of all N
\* artifacts: each is that text followed by the footer.
C20_OneQueryIdenticalBodies ==
    /\ gen.queries <= 1 /\ gen.posts <= gen.queries
    /\ Contains(gen.path, "Analyzing") /\ gen.state # "Analyzing" => gen.queries = 1
    /\ gen.state = "Done" =>
           /\ gen.posts = 1
           /\ gen.text = QueryOutcome(gen.resp).ret.val
           /\ Len(gen.output.entries) = Cardinality(gen.targets)
           /\ \A i \in 1..Len(gen.output.entries) :
                  gen.output.entries[i].content = gen.text \o Footer
           /\ \A i, j \in 1..Len(gen.output.entries) :
                  gen.output.entries[i].content = gen.output.entries[j].content

\* two targets got the same body from one query
C20_Witness ==
    /\ gen.state = "Done" /\ gen.targets = { "cursor", "windsurf" }
    /\ gen.queries = 1 /\ gen.posts = 1
    /\ gen.output.kind = "archive"
    /\ gen.output.entries[1].content = gen.output.entries[2].content
    /\ gen.output.entries[1].filename # gen.output.entries[2].filename

-----------------------------------------------------------------------------
(* The session across calls of generate *)

\* this step makes a handshake
HandshakeStep == gen'.handshakes = gen.handshakes + 1

\* this step is the call of query
QueryStep == gen'.queries = gen.queries + 1

\* this step sends query's POST
PostStep == gen'.posts = gen.posts + 1

\* C22: the session is established at most once and reused. generate has the
\* client constructed, its one handshake made, before the query of its first call;
\* a query's POST goes out on a ready session only; and once a handshake has
\* succeeded, no later step of any generate call makes a handshake or changes the
\* session (nothing resets it).
C22_SessionOnceAndReused ==
    [][ /\ QueryStep => constructed
        /\ PostStep => is_initialized /\ session_id \in accepted
        /\ HandshakeStep => ~constructed /\ ~is_initialized
        /\ is_initialized =>
              /\ ~HandshakeStep
              /\ is_initialized' /\ session_id' = session_id /\ constructed' ]_vars

\* a later call of generate has sent its query on the session an earlier call
\* established, without a handshake of its own
C22_Witness ==
    /\ gen.state \in Terminal
    /\ gen.handshakes = 0
    /\ gen.posts = 1
    /\ is_initialized /\ session_id \in accepted

-----------------------------------------------------------------------------
(* Parser harness: parse_sse_response on every short text *)

\* the pieces a response text is made of: event and data lines, the blank line
\* that ends a block, payload text, white space, and text that is no SSE at all
BodyPieces == { EvMessage, EvPing, DataResult, DataError, DataBad, Sep,
                "# Overview", " ", "<html>" }

ParseIdle(body) == [ body |-> body, out |-> << >>, done |-> FALSE ]

ParseInit ==
    /\ sse \in { ParseIdle(b) : b \in SeqsUpTo(BodyPieces, MaxBodyLen) }
    /\ gen = << >> /\ pkg = << >> /\ ui = << >>
    /\ harnessIdle

\* the parser is called with the text and returns
ParseCall ==
    /\ ~sse.done
    /\ sse' = [ sse EXCEPT !.out = parse_sse_response(sse.body), !.done = TRUE ]
    /\ UNCHANGED << norm, pair, gen, pkg, ui, clientVars >>

ParseNext == ParseCall

ParseSpec == ParseInit /\ [][ParseNext]_vars

\* the three diagnostics of the parser and the vendor error it passes on
IsDiagnostic(out) == \E m \in DiagMarkers : StartsWith(out, m)

\* a text has no block that is closed by a blank line
Truncated(body) == body # << >> /\ body[Len(body)] # Sep

\* no line of the text is an event or data line
NonSSE(body) ==
    /\ body # << >>
    /\ \A i \in 1..Len(body) : body[i] \in { "# Overview", " ", "<html>" }

\* C23: for every text, the empty one, text that is no SSE and truncated blocks
\* included, the parser returns a value, and the value is extracted text (not
\* empty) or a diagnostic; the text drawn from a block is the payload of that block.
C23_ParseReturnsTextOrDiagnostic ==
    sse.done =>
        /\ sse.out # << >>
        /\ IsUsable(sse.out) \/ IsDiagnostic(sse.out)
        /\ sse.body = << >> => sse.out = << "No message event", " found in response" >>
        /\ NonSSE(sse.body) => sse.out = << "Error parsing", " SSE response" >>
        /\ IsUsable(sse.out) => \E i \in 1..Len(sse.body) : sse.body[i] = DataResult

\* the parser has returned a diagnostic for a block that breaks off after its
\* result line
C23_Witness ==
    /\ sse.done
    /\ sse.body = << EvMessage, DataResult >>
    /\ Truncated(sse.body)
    /\ IsDiagnostic(sse.out)

-----------------------------------------------------------------------------
(* The page: Index.tsx with the analytics hook and the cookie banner *)

\* the most requests the page may have outstanding before a click is refused
MaxRequests == 2

\* ids of progressSteps, lines 65-70; currentStep counts from 0
progressSteps == << "initialize", "prompt", "generate", "prepare" >>

\* the step the progress list shows as active, lines 766-768
ActiveStep(s) ==
    IF s.currentStep < Len(progressSteps) /\ ~s.isBackendComplete
    THEN progressSteps[s.currentStep + 1]
    ELSE "none"

GithubHost == << "g","i","t","h","u","b",".","c","o","m","/" >>

\* what extractGithubInfo returns when the pattern does not match
Undefined == [ defined |-> FALSE, username |-> << >>, repo |-> << >> ]

\* length of the greedy run [^/?#]+ starting at index i
RECURSIVE RepoRunLen(_, _)
RepoRunLen(s, i) ==
    IF i > Len(s) \/ s[i] \in { "/", "?", "#" } THEN 0 ELSE 1 + RepoRunLen(s, i + 1)

\* github\.com\/([^\/]+)\/([^\/\?#]+) matched with its first character at index i
MatchAt(url, i) ==
    LET u == i + Len(GithubHost)
        a == RunLen(url, u)
        b == IF a > 0 /\ u + a <= Len(url) THEN RepoRunLen(url, u + a + 1) ELSE 0
    IN  IF /\ u - 1 <= Len(url)
           /\ SubSeq(url, i, u - 1) = GithubHost
           /\ a > 0 /\ b > 0
        THEN [ defined |-> TRUE, username |-> SubSeq(url, u, u + a - 1),
               repo |-> SubSeq(url, u + a + 1, u + a + b) ]
        ELSE Undefined

\* extractGithubInfo, lines 54-63: the leftmost match anywhere in the text
extractGithubInfo(url) ==
    LET hits == { i \in 1..Len(url) : MatchAt(url, i).defined }
    IN  IF hits = {} THEN Undefined
        ELSE MatchAt(url, CHOOSE i \in hits : \A j \in hits : i <= j)

\* a plausible slip: the reset empties the form as well
resetComponentStateAndForm(s) ==
    [ s EXCEPT !.isGenerating = FALSE, !.currentStep = 0, !.isBackendComplete = FALSE,
               !.isGenerationComplete = FALSE, !.viewSearchUrl = "null",
               !.repositoryError = NoRepositoryError,
               !.githubUrl = << >>, !.selectedAgents = {} ]

\* resetComponentState, lines 135-143
resetComponentState(s) ==
    [ s EXCEPT !.isGenerating = FALSE, !.currentStep = 0, !.isBackendComplete = FALSE,
               !.isGenerationComplete = FALSE, !.viewSearchUrl = "null",
               !.repositoryError = NoRepositoryError ]

\* the effect of lines 146-152, run when isGenerating has changed
resetProgress(s) ==
    IF s.isGenerating /\ ~s.isBackendComplete /\ ~s.isGenerationComplete
    THEN [ s EXCEPT !.currentStep = 0, !.isBackendComplete = FALSE,
                    !.isGenerationComplete = FALSE ]
    ELSE s

NoHit == [ kind |-> "none", consent |-> "none" ]

\* what Google Analytics was last asked to do, and the stored choice at that moment
Hit(s, kind) == [ kind |-> kind, consent |-> s.consent ]

\* trackEvent and trackClick of the hook: sent when the library is initialised
trackEvent(s) == IF s.gaInitialized THEN [ s EXCEPT !.lastHit = Hit(s, "event") ] ELSE s

\* the page after it has loaded with the stored choice c: useState defaults, and
\* both effects of useAnalytics have run
PageLoad(c) ==
    [ githubUrl |-> << >>, selectedAgents |-> {}, isGenerating |-> FALSE,
      currentStep |-> 0, isBackendComplete |-> FALSE, isGenerationComplete |-> FALSE,
      viewSearchUrl |-> "null", repositoryError |-> NoRepositoryError, toast |-> "none",
      pc |-> "idle", via |-> "none", timeoutId |-> "none", aborted |-> FALSE,
      inflight |-> 0, headers |-> FALSE, downloads |-> 0,
      consent |-> c, gaInitialized |-> (c = "granted"), banner |-> (c = "none"),
      lastHit |-> IF c = "granted" THEN [ kind |-> "pageview", consent |-> c ]
                  ELSE NoHit ]

\* fetch is called, lines 400-413
sendFetch(s) == [ s EXCEPT !.pc = "fetch", !.inflight = s.inflight + 1 ]

\* the common part of both handlers from setIsGenerating(true) to the first await,
\* lines 389-399 and 197-208
startRequest(s, via) ==
    LET t == resetProgress([ s EXCEPT !.isGenerating = TRUE,
                                      !.repositoryError = NoRepositoryError,
                                      !.via = via, !.timeoutId = "pending",
                                      !.aborted = FALSE, !.headers = FALSE,
                                      !.downloads = 0 ])
    IN  IF t.gaInitialized THEN [ t EXCEPT !.pc = "ids" ] ELSE sendFetch(t)

\* the title of the toast for a failure that is neither a timeout nor a network
\* error, lines 499 and 310
FailedTitle(s) == IF s.via = "demo" THEN "Demo Failed" ELSE "Generation Failed"

\* the catch clause has shown its toast and reset the page, lines 494-537
failed(s, title) ==
    [ resetComponentState(s) EXCEPT !.toast = title, !.pc = "idle",
                                    !.timeoutId = IF s.timeoutId = "pending" THEN "cleared"
                                                  ELSE s.timeoutId ]

\* a plausible slip: the structured error is set and the page reset after it
showRepositoryErrorThenReset(s, errorData) ==
    resetComponentState([ s EXCEPT !.repositoryError = RepositoryErrorOf(errorData) ])

\* lines 420-444: the structured error is kept, the generation state is put back
showRepositoryError(s, errorData) ==
    [ s EXCEPT !.repositoryError = RepositoryErrorOf(errorData),
               !.isGenerating = FALSE, !.currentStep = 0, !.isBackendComplete = FALSE,
               !.isGenerationComplete = FALSE, !.viewSearchUrl = "null" ]

\* the body of a structured repository error
RepositoryErrorData(repo_type) ==
    [ error_type |-> "repository_not_found", error |-> << "Repository not found" >>,
      deepwiki_url |-> HintUrl(<< "o/r" >>), repo_type |-> repo_type ]

\* a plausible slip: the buttons stay enabled while a generation runs
ButtonsNeverDisabled(isGenerating) == FALSE

\* disabled={isGenerating} of both buttons, the URL field and the check boxes
ButtonsDisabled(isGenerating) == isGenerating

uiFrame == << norm, pair, gen, pkg, sse, clientVars >>

DemoUrl == HttpsPrefix \o << "d", "/", "d" >>

ShortUrl == << "o", "/", "r" >>

\* what the user may type into the URL field
TypedUrls == { << >>, RepoUrl, ShortUrl }

\* the check boxes the user toggles
ToggledIds == { "claude", "cursor" }

\* "Generate & Download" is clicked: handleGenerate, lines 366-399
ClickGenerate ==
    /\ ~ButtonsDisabled(ui.isGenerating)
    /\ ~ui.isGenerationComplete
    /\ ui.inflight < MaxRequests
    /\ LET s       == trackEvent(ui)
           refused == FormRejects(ui.githubUrl, ui.selectedAgents)
       IN  ui' = IF refused # "none" THEN [ s EXCEPT !.toast = refused ]
                 ELSE startRequest(s, "generate")
    /\ UNCHANGED uiFrame

\* "Try Demo" is clicked: handleTryDemo, lines 162-208
handleTryDemo ==
    /\ ~ButtonsDisabled(ui.isGenerating)
    /\ ui.inflight < MaxRequests
    /\ LET s == resetComponentState(trackEvent(ui))
       IN  ui' = startRequest([ s EXCEPT !.githubUrl = DemoUrl,
                                         !.selectedAgents = { "claude", "cursor" },
                                         !.toast = "Demo started!" ], "demo")
    /\ UNCHANGED uiFrame

\* "Generate Another One" is clicked: handleGenerateAnother, lines 342-348
handleGenerateAnother ==
    /\ ~ButtonsDisabled(ui.isGenerating)
    /\ ui.isGenerationComplete
    /\ ui' = [ resetComponentState(ui) EXCEPT !.githubUrl = << >>,
                                              !.selectedAgents = {} ]
    /\ UNCHANGED uiFrame

\* the user types into the URL field, line 624
EditUrl(u) ==
    /\ ~ButtonsDisabled(ui.isGenerating)
    /\ u # ui.githubUrl
    /\ ui' = [ ui EXCEPT !.githubUrl = u ]
    /\ UNCHANGED uiFrame

\* handleAgentToggle, lines 154-160, behind the check of line 647
handleAgentToggle(agentId) ==
    /\ ~ButtonsDisabled(ui.isGenerating)
    /\ ui' = [ ui EXCEPT !.selectedAgents =
                   IF agentId \in ui.selectedAgents THEN ui.selectedAgents \ { agentId }
                   ELSE ui.selectedAgents \cup { agentId } ]
    /\ UNCHANGED uiFrame

\* getGAIdentifiers resolves: the two gtag callbacks have been called, with values
\* or without; then fetch is called, which rejects at once on an aborted signal
IdentifiersArrive(present) ==
    /\ ui.pc = "ids"
    /\ LET s == [ ui EXCEPT !.headers = present,
                            !.lastHit = IF present THEN Hit(ui, "identifiers")
                                        ELSE ui.lastHit ]
       IN  ui' = IF ui.timeoutId = "fired" THEN failed(s, "Request Timeout")
                 ELSE sendFetch(s)
    /\ UNCHANGED uiFrame

\* what the backend answers, and a fetch that fails on the network
FetchOutcomes == { "ok", "unreadable", "private", "not_indexed", "generic", "network" }

\* the fetch settles, lines 414-492 and the catch clause
FetchSettles(o) ==
    /\ ui.pc = "fetch"
    /\ ui.inflight > 0
    /\ LET s == [ ui EXCEPT !.inflight = ui.inflight - 1, !.timeoutId = "cleared" ]
       IN  ui' =
             IF o = "ok"
             THEN [ s EXCEPT !.isBackendComplete = TRUE, !.viewSearchUrl = "url",
                             !.downloads = s.downloads + 1, !.pc = "shown" ]
             ELSE IF o = "unreadable" THEN failed(s, FailedTitle(s))
             ELSE IF o \in { "private", "not_indexed" }
             THEN [ showRepositoryError(trackEvent(s), RepositoryErrorData(o))
                        EXCEPT !.pc = "idle" ]
             ELSE IF o = "generic" THEN failed(s, FailedTitle(s))
             ELSE [ s EXCEPT !.pc = "health" ]
    /\ UNCHANGED uiFrame

\* checkBackendHealth has returned, by its answer or its own 5 s timer, lines 73-88
HealthReturns ==
    /\ ui.pc = "health"
    /\ ui' = failed(ui, "Backend Service Unavailable")
    /\ UNCHANGED uiFrame

\* the timer of lines 485-492 fires 1.5 s after the download
CompletionTimerFires ==
    /\ ui.pc = "shown"
    /\ ui' = [ ui EXCEPT !.toast = IF ui.via = "demo" THEN "Demo Complete!"
                                    ELSE "Files Generated!",
                         !.isGenerating = FALSE,
                         !.isGenerationComplete = TRUE, !.pc = "idle" ]
    /\ UNCHANGED uiFrame

\* a plausible slip: the signal is not handed to fetch, the timer aborts nothing
AbortTimerFiresUnheard ==
    /\ ui.timeoutId = "pending"
    /\ ui' = [ ui EXCEPT !.timeoutId = "fired", !.aborted = (ui.pc = "fetch") ]
    /\ UNCHANGED uiFrame

\* the timer of lines 393-396 fires after 320 s: a fetch in flight rejects with
\* AbortError and the catch clause runs; before the fetch only the signal is set
AbortTimerFires ==
    /\ ui.timeoutId = "pending"
    /\ ui' = IF ui.pc = "fetch"
             THEN failed([ ui EXCEPT !.timeoutId = "fired", !.aborted = TRUE,
                                     !.inflight = ui.inflight - 1 ], "Request Timeout")
             ELSE [ ui EXCEPT !.timeoutId = "fired" ]
    /\ UNCHANGED uiFrame

\* the timer of the progress effect fires, lines 91-103
ProgressTick ==
    /\ ui.isGenerating /\ ~ui.isBackendComplete
    /\ ui.currentStep < Len(progressSteps) - 1
    /\ ui' = [ ui EXCEPT !.currentStep = ui.currentStep + 1 ]
    /\ UNCHANGED uiFrame

\* the timer of the second effect fires, lines 106-114
FinalStep ==
    /\ ui.isBackendComplete
    /\ ui.currentStep < Len(progressSteps)
    /\ ui' = [ ui EXCEPT !.currentStep = Len(progressSteps) ]
    /\ UNCHANGED uiFrame

\* the location changes: second effect of useAnalytics
RouteChange ==
    /\ ui.gaInitialized
    /\ ui.lastHit # Hit(ui, "pageview")
    /\ ui' = [ ui EXCEPT !.lastHit = Hit(ui, "pageview") ]
    /\ UNCHANGED uiFrame

\* the banner's Allow: the choice is stored and the page reloads
Allow ==
    /\ ui.banner
    /\ ui' = PageLoad("granted")
    /\ UNCHANGED uiFrame

\* the banner's Decline: the choice is stored, the page stays as it is
Decline ==
    /\ ui.banner
    /\ ui' = [ ui EXCEPT !.consent = "denied", !.banner = FALSE ]
    /\ UNCHANGED uiFrame

\* the window event open-privacy-settings shows the banner again
OpenPrivacySettings ==
    /\ ~ui.banner
    /\ ui' = [ ui EXCEPT !.banner = TRUE ]
    /\ UNCHANGED uiFrame

UiInit ==
    /\ ui \in { PageLoad(c) : c \in { "none", "granted", "denied" } }
    /\ gen = << >> /\ pkg = << >> /\ sse = << >>
    /\ harnessIdle

\* the timers the page itself has set and that end a generation
PageTimerStep == AbortTimerFires \/ HealthReturns \/ CompletionTimerFires

UiNext ==
    \/ ClickGenerate
    \/ handleTryDemo
    \/ handleGenerateAnother
    \/ \E u \in TypedUrls : EditUrl(u)
    \/ \E agentId \in ToggledIds : handleAgentToggle(agentId)
    \/ \E present \in BOOLEAN : IdentifiersArrive(present)
    \/ \E o \in FetchOutcomes : FetchSettles(o)
    \/ HealthReturns
    \/ CompletionTimerFires
    \/ AbortTimerFires
    \/ ProgressTick
    \/ FinalStep
    \/ RouteChange
    \/ Allow
    \/ Decline
    \/ OpenPrivacySettings

UiSpec == UiInit /\ [][UiNext]_vars

-----------------------------------------------------------------------------
(* Claims about the page *)

\* the handler of the page is between two of its steps only while the page shows
\* a generation; the abort timer is pending only before the fetch has settled
PageWellFormed ==
    /\ ui.pc # "idle" => ui.isGenerating
    /\ ui.timeoutId = "pending" => ui.pc \in { "ids", "fetch" }
    /\ ui.pc = "fetch" <=> ui.inflight = 1
    /\ ui.inflight \in { 0, 1 }
    /\ ui.downloads \in { 0, 1 }

\* C21: cancellation is all-or-nothing. When the 320 s timer has fired while the
\* request was in flight, the network call is aborted (no request is outstanding),
\* and nothing of that request is delivered: no file is downloaded, the backend is
\* not marked complete, no follow-up link is stored and the page does not show a
\* completed generation; nor is anything downloaded when the timer fired before
\* the fetch was called.
C21_AbortIsAllOrNothing ==
    /\ ui.aborted =>
          /\ ui.timeoutId = "fired"
          /\ ui.inflight = 0
          /\ ui.pc = "idle" /\ ~ui.isGenerating
          /\ ui.downloads = 0
          /\ ~ui.isBackendComplete /\ ~ui.isGenerationComplete
          /\ ui.viewSearchUrl = "null"
    /\ ui.timeoutId = "fired" => ui.downloads = 0 /\ ui.inflight = 0

\* the timer has fired on a request in flight and the page has reported it
C21_Witness ==
    /\ ui.aborted
    /\ ui.timeoutId = "fired"
    /\ ui.toast = "Request Timeout"
    /\ ui.githubUrl = RepoUrl

\* C24: Google Analytics is active only with consent. Whatever the library was
\* last asked to do (initialise, send a page view, send an event, hand out the
\* client and session identifiers for a generate request), the stored choice was
\* "granted" at that moment, also after the choice has been changed to "denied".
C24_AnalyticsOnlyWithConsent ==
    ui.lastHit.kind # "none" => ui.lastHit.consent = "granted"

\* the library is initialised only on a page that loaded with the choice "granted"
InitializedOnlyAfterGrant ==
    ui.gaInitialized => ui.consent \in { "granted", "denied" } /\ ui.lastHit.kind # "none"

\* this step receives a structured repository error
ReceivesRepositoryError == \E o \in { "private", "not_indexed" } : FetchSettles(o)

\* this step starts a generation or a demo
StartsGeneration == ~ui.isGenerating /\ ui'.isGenerating

\* C25: a structured repository error is rendered persistently. The step that
\* receives it sets repositoryError, ends the generating state and shows no toast;
\* while repositoryError is set the page is not generating; and every later step
\* on this page load keeps repositoryError as it is unless it starts a new
\* generation or demo.
C25_RepositoryErrorPersists ==
    [][ /\ ReceivesRepositoryError =>
              /\ ui'.repositoryError # NoRepositoryError
              /\ ui'.repositoryError.type = "repository_not_found"
              /\ ~ui'.isGenerating /\ ui'.pc = "idle"
              /\ ui'.toast = ui.toast
        /\ ui.repositoryError # NoRepositoryError =>
              /\ ~ui.isGenerating
              /\ StartsGeneration \/ Allow
                 \/ (ui'.repositoryError = ui.repositoryError /\ ~ui'.isGenerating) ]_vars

\* the error of a generate request is still shown after the user has emptied the
\* URL field
C25_Witness ==
    /\ ui.repositoryError.repoType = "private"
    /\ ui.githubUrl = << >>
    /\ ui.via = "generate"
    /\ ~ui.isGenerating

\* currentStep reaches the length of progressSteps only after the backend has
\* completed
FullOnlyAfterBackend == ui.currentStep = Len(progressSteps) => ui.isBackendComplete

\* C26: while a generation runs and the backend has not answered, the simulated
\* progress stops before the last step: "Downloading context files" (prepare) is
\* not the active step; and currentStep reaches the length of progressSteps only
\* after the backend has completed.
C26_ProgressStopsBeforeLastStep ==
    /\ ui.isGenerating /\ ~ui.isBackendComplete =>
          /\ ActiveStep(ui) # "prepare"
          /\ ui.currentStep < Len(progressSteps) - 1
    /\ FullOnlyAfterBackend

\* no abort timer is pending once the page has left the generating state
NoTimerLeftPending == ~ui.isGenerating => ui.timeoutId # "pending"

\* past the wait for the analytics identifiers, a generating page always has one
\* of its own timers pending
EndsOnceFetchCalled == ui.isGenerating /\ ui.pc # "ids" => ENABLED PageTimerStep

\* C27: every generation started by handleGenerate or handleTryDemo leaves the
\* generating state again. As a property of every reachable state: while
\* isGenerating is true, a timer set by the page is pending whose firing ends the
\* generation or aborts its request (the 320 s abort timer, the 5 s timer of the
\* health check, the 1.5 s timer after the download), so that the page cannot stay
\* generating for ever; and once isGenerating is false no abort timer is pending.
C27_EveryGenerationEnds ==
    /\ ui.isGenerating => ENABLED PageTimerStep
    /\ NoTimerLeftPending

\* C28: at most one generate request is in flight from the page at any time.
\* While isGenerating is true neither button can start a request, a handler that
\* has not finished keeps isGenerating true, and so never more than one fetch is
\* outstanding, whatever the order of clicks, responses and timers.
C28_OneRequestInFlight ==
    /\ ui.inflight <= 1
    /\ ui.isGenerating => ~ENABLED ClickGenerate /\ ~ENABLED handleTryDemo
    /\ ui.pc # "idle" \/ ui.inflight > 0 => ui.isGenerating

\* a second request is in flight after an earlier one of this page has failed
C28_Witness ==
    /\ ui.pc = "fetch" /\ ui.inflight = 1
    /\ ui.isGenerating
    /\ ui.toast = "Generation Failed"

\* the pattern finds owner and repository in a repository URL, also behind other
\* text, and nothing in the short form owner/repo
ExtractsFromUrl ==
    /\ extractGithubInfo(RepoUrl) =
           [ defined |-> TRUE, username |-> << "o" >>, repo |-> << "r" >> ]
    /\ extractGithubInfo(RepoUrl \o << "?", "q" >>).repo = << "r" >>
    /\ extractGithubInfo(ShortUrl) = Undefined
    /\ extractGithubInfo(HttpsPrefix \o << "o" >>) = Undefined

\* C29: whenever isGenerationComplete is true, extractGithubInfo(githubUrl) yields
\* an owner and a repository for what the URL field holds, so that the follow-up
\* link, which destructures the result, is built without a fault.
C29_FollowUpLinkNeverFaults ==
    ui.isGenerationComplete => extractGithubInfo(ui.githubUrl).defined

\* the values resetComponentState gives to the state variables of a generation,
\* of the progress and of the completion
GenerationCleared(s) ==
    /\ ~s.isGenerating /\ s.currentStep = 0
    /\ ~s.isBackendComplete /\ ~s.isGenerationComplete
    /\ s.viewSearchUrl = "null"

\* ... and to the repository error as well
Cleared(s) == GenerationCleared(s) /\ s.repositoryError = NoRepositoryError

FormOf(s) == << s.githubUrl, s.selectedAgents >>

\* this step ends a generation without a download: in the catch clause or with a
\* structured repository error
GenerationFails ==
    /\ ui.pc \in { "ids", "fetch", "health" } /\ ui'.pc = "idle"
    /\ ~Allow

\* this step is the user typing, toggling a check box, or reloading the page
UserInput ==
    \/ \E u \in TypedUrls : EditUrl(u)
    \/ \E agentId \in ToggledIds : handleAgentToggle(agentId)
    \/ Allow

\* when a step leaves both form fields empty that were not both empty before, it
\* is handleGenerateAnother or the user's own input
OnlyGenerateAnotherClearsForm ==
    ( /\ FormOf(ui') = << << >>, {} >>
      /\ FormOf(ui) # FormOf(ui') )
    => handleGenerateAnother \/ UserInput

\* C30 (as stated): resetComponentState leaves githubUrl and selectedAgents as
\* they are and clears the generation, progress, completion and repository-error
\* state; so does every generation that fails; and only handleGenerateAnother
\* clears the form fields.
C30_EveryFailureClearsAll ==
    [][ /\ FormOf(resetComponentState(ui)) = FormOf(ui)
        /\ Cleared(resetComponentState(ui))
        /\ GenerationFails => FormOf(ui') = FormOf(ui) /\ Cleared(ui')
        /\ OnlyGenerateAnotherClearsForm ]_vars

\* C30 (amended): resetComponentState leaves githubUrl and selectedAgents as they
\* are and clears the generation, progress, completion and repository-error
\* state. Every generation that fails leaves the form as it is and clears the
\* generation, progress and completion state; it clears the repository error too
\* unless it ends with a structured repository error, which it sets. Only
\* handleGenerateAnother clears the form fields.
C30_ResetKeepsTheForm ==
    [][ /\ FormOf(resetComponentState(ui)) = FormOf(ui)
        /\ Cleared(resetComponentState(ui))
        /\ GenerationFails =>
              /\ FormOf(ui') = FormOf(ui)
              /\ GenerationCleared(ui')
              /\ IF ReceivesRepositoryError
                 THEN ui'.repositoryError # NoRepositoryError
                 ELSE ui'.repositoryError = NoRepositoryError
        /\ OnlyGenerateAnotherClearsForm ]_vars

\* a generation has failed in the catch clause with the form still filled in
C30_Witness ==
    /\ ui.toast = "Generation Failed"
    /\ ui.pc = "idle" /\ Cleared(ui)
    /\ ui.githubUrl = RepoUrl
    /\ ui.selectedAgents = { "claude" }

====
